---- MODULE Spec2Model ----
(***************************************************************************)
(* The remote metrics collector: the POST handler of                       *)
(* src/app/api/remote-system/route.ts.                                     *)
(*                                                                         *)
(* A text is a sequence of symbols.  A symbol is one character, or a run   *)
(* of characters that no operation of the handler cuts (a word), written   *)
(* as a TLA+ string.  A JavaScript value that may be undefined is the      *)
(* empty tuple (undefined) or a one-element tuple holding the value.       *)
(*                                                                         *)
(* Every action is one synchronous run of the handler between two await    *)
(* points (or between an await point and a return).                        *)
(***************************************************************************)
EXTENDS Integers, Sequences, FiniteSets, TLC

\* ------------------------------------------------------------------ bounds
MaxRequests == 2
MaxPaths == 2

Requests == 1..MaxRequests
Paths == 1..MaxPaths

\* ------------------------------------------------------- JavaScript values
Undefined == <<>>
Some(v) == <<v>>

\* !v for a string-or-undefined v: undefined and "" are falsy.
TruthyStr(v) == v # Undefined /\ v[1] # <<>>
\* !v for a number-or-undefined v: undefined and 0 are falsy.
TruthyNum(v) == v # Undefined /\ v[1] # 0

\* ------------------------------------------------------------ text helpers
IsSpace(c) == c \in {" ", "\n", "\r", "\t"}

RECURSIVE ReplaceAll(_, _, _)
ReplaceAll(s, pat, rep) ==
    IF Len(s) < Len(pat) THEN s
    ELSE IF SubSeq(s, 1, Len(pat)) = pat
         THEN rep \o ReplaceAll(SubSeq(s, Len(pat) + 1, Len(s)), pat, rep)
         ELSE <<Head(s)>> \o ReplaceAll(Tail(s), pat, rep)

RECURSIVE TrimStart(_)
TrimStart(s) ==
    IF s # <<>> /\ IsSpace(Head(s)) THEN TrimStart(Tail(s)) ELSE s

RECURSIVE TrimEnd(_)
TrimEnd(s) ==
    IF s # <<>> /\ IsSpace(s[Len(s)]) THEN TrimEnd(SubSeq(s, 1, Len(s) - 1)) ELSE s

Trim(s) == TrimEnd(TrimStart(s))

Includes(s, sub) ==
    \E i \in 1..(Len(s) - Len(sub) + 1) : SubSeq(s, i, i + Len(sub) - 1) = sub

\* The first position at or after i where sep occurs in s; 0 when none does.
RECURSIVE IndexOf(_, _, _)
IndexOf(s, sep, i) ==
    IF i + Len(sep) - 1 > Len(s) THEN 0
    ELSE IF SubSeq(s, i, i + Len(sep) - 1) = sep THEN i
    ELSE IndexOf(s, sep, i + 1)

\* String.prototype.split on a non-empty separator.
RECURSIVE Split(_, _)
Split(s, sep) ==
    LET k == IndexOf(s, sep, 1)
    IN  IF k = 0 THEN <<s>>
        ELSE <<SubSeq(s, 1, k - 1)>> \o Split(SubSeq(s, k + Len(sep), Len(s)), sep)

\* split(/\s+/) of a trimmed, non-empty line.
RECURSIVE SplitWhitespace(_)
SplitWhitespace(s) ==
    IF \A i \in 1..Len(s) : ~IsSpace(s[i]) THEN <<s>>
    ELSE LET k == CHOOSE i \in 1..Len(s) :
                      IsSpace(s[i]) /\ \A j \in 1..(i - 1) : ~IsSpace(s[j])
         IN  <<SubSeq(s, 1, k - 1)>> \o SplitWhitespace(TrimStart(SubSeq(s, k, Len(s))))

\* Array.prototype.join.
RECURSIVE Join(_, _)
Join(parts, sep) ==
    IF parts = <<>> THEN <<>>
    ELSE IF Len(parts) = 1 THEN parts[1]
    ELSE parts[1] \o sep \o Join(Tail(parts), sep)

\* substring(0, n)
Prefix(s, n) == SubSeq(s, 1, IF Len(s) < n THEN Len(s) ELSE n)

\* slice(0, n) of an array
Slice0(a, n) == SubSeq(a, 1, IF Len(a) < n THEN Len(a) ELSE n)

\* ------------------------------------------------------------------ numbers
\* A natural number is the sequence of its decimal digits, most significant
\* first, without leading zeros (zero is the empty sequence): the byte counts
\* of the probes do not fit 32-bit integers.
RECURSIVE Norm(_)
Norm(d) == IF d # <<>> /\ Head(d) = 0 THEN Norm(Tail(d)) ELSE d

Front(d) == SubSeq(d, 1, Len(d) - 1)

Last(d) == d[Len(d)]

RECURSIVE SmallDigits(_)
SmallDigits(n) == IF n = 0 THEN <<>> ELSE SmallDigits(n \div 10) \o <<n % 10>>

RECURSIVE AddCarry(_, _, _)
AddCarry(a, b, c) ==
    IF a = <<>> /\ b = <<>> THEN SmallDigits(c)
    ELSE LET x == IF a = <<>> THEN 0 ELSE Last(a)
             y == IF b = <<>> THEN 0 ELSE Last(b)
             s == x + y + c
         IN  AddCarry(IF a = <<>> THEN a ELSE Front(a),
                      IF b = <<>> THEN b ELSE Front(b), s \div 10) \o <<s % 10>>

NatAdd(a, b) == Norm(AddCarry(a, b, 0))

RECURSIVE MulCarry(_, _, _)
MulCarry(a, k, c) ==
    IF a = <<>> THEN SmallDigits(c)
    ELSE LET s == Last(a) * k + c
         IN  MulCarry(Front(a), k, s \div 10) \o <<s % 10>>

\* a * k for a small k
NatMulSmall(a, k) == Norm(MulCarry(a, k, 0))

RECURSIVE Zeros(_)
Zeros(n) == IF n <= 0 THEN <<>> ELSE <<0>> \o Zeros(n - 1)

\* a * 10^n
NatShift(a, n) == Norm(a \o Zeros(n))

RECURSIVE LexLess(_, _)
LexLess(a, b) ==
    /\ a # <<>>
    /\ \/ Head(a) < Head(b)
       \/ Head(a) = Head(b) /\ LexLess(Tail(a), Tail(b))

NatLess(a, b) == Len(a) < Len(b) \/ (Len(a) = Len(b) /\ LexLess(a, b))

NatLeq(a, b) == a = b \/ NatLess(a, b)

RECURSIVE SubBorrow(_, _, _)
SubBorrow(a, b, c) ==
    IF a = <<>> THEN <<>>
    ELSE LET y == IF b = <<>> THEN 0 ELSE Last(b)
             s == Last(a) - y - c
         IN  SubBorrow(Front(a), IF b = <<>> THEN b ELSE Front(b),
                       IF s < 0 THEN 1 ELSE 0) \o <<IF s < 0 THEN s + 10 ELSE s>>

\* a - b for a >= b
NatSub(a, b) == Norm(SubBorrow(a, b, 0))

\* How often b goes into cur, and what is left.
RECURSIVE CountSub(_, _, _)
CountSub(cur, b, k) ==
    IF NatLess(cur, b) THEN [k |-> k, r |-> cur] ELSE CountSub(NatSub(cur, b), b, k + 1)

\* Long division, one digit of the dividend at a time.
RECURSIVE DivStep(_, _, _, _)
DivStep(a, b, q, rem) ==
    IF a = <<>> THEN [q |-> Norm(q), r |-> rem]
    ELSE LET d == CountSub(Norm(rem \o <<Head(a)>>), b, 0)
         IN  DivStep(Tail(a), b, q \o <<d.k>>, d.r)

\* [q, r] with a = q * b + r and r < b, for b > 0
NatDivMod(a, b) == DivStep(a, b, <<>>, <<>>)

\* A number of the program: not-a-number, an infinity, or the finite
\* sign * mag / 10^scale, kept with no trailing zero after the point.
NaN == [kind |-> "nan", sign |-> 1, mag |-> <<>>, scale |-> 0]
Infinite(sign) == [kind |-> "inf", sign |-> sign, mag |-> <<>>, scale |-> 0]

RECURSIVE Canonical(_, _, _)
Canonical(sign, mag, scale) ==
    IF scale > 0 /\ mag # <<>> /\ Last(mag) = 0 THEN Canonical(sign, Front(mag), scale - 1)
    ELSE IF mag = <<>> THEN [kind |-> "fin", sign |-> sign, mag |-> <<>>, scale |-> 0]
    ELSE [kind |-> "fin", sign |-> sign, mag |-> mag, scale |-> scale]

Finite(sign, mag, scale) == Canonical(sign, Norm(mag), scale)

Small(n) == Finite(1, SmallDigits(n), 0)

IsZero(x) == x.kind = "fin" /\ x.mag = <<>>

\* A variant of OrElse whose fallback is always 0.
OrElse_Zero(x, fallback) == IF x.kind = "nan" \/ IsZero(x) THEN Small(0) ELSE x

\* x || fallback for a number x: NaN, 0 and -0 are falsy.
OrElse(x, fallback) == IF x.kind = "nan" \/ IsZero(x) THEN fallback ELSE x

\* ----------------------------------------------------- parseInt, parseFloat
DecimalDigits == {"0", "1", "2", "3", "4", "5", "6", "7", "8", "9"}

HexDigits == DecimalDigits \cup {"a", "b", "c", "d", "e", "f", "A", "B", "C", "D", "E", "F"}

DigitValue(c) ==
    CASE c = "0" -> 0 [] c = "1" -> 1 [] c = "2" -> 2 [] c = "3" -> 3 [] c = "4" -> 4
      [] c = "5" -> 5 [] c = "6" -> 6 [] c = "7" -> 7 [] c = "8" -> 8 [] c = "9" -> 9
      [] c \in {"a", "A"} -> 10 [] c \in {"b", "B"} -> 11 [] c \in {"c", "C"} -> 12
      [] c \in {"d", "D"} -> 13 [] c \in {"e", "E"} -> 14 [] c \in {"f", "F"} -> 15

\* The longest prefix of s made of symbols of set.
RECURSIVE TakeWhile(_, _)
TakeWhile(s, set) ==
    IF s # <<>> /\ Head(s) \in set THEN <<Head(s)>> \o TakeWhile(Tail(s), set) ELSE <<>>

Drop(s, n) == SubSeq(s, n + 1, Len(s))

\* The value of a digit text in a radix.
RECURSIVE DigitsValue(_, _, _)
DigitsValue(ds, radix, acc) ==
    IF ds = <<>> THEN acc
    ELSE DigitsValue(Tail(ds), radix,
                     NatAdd(NatMulSmall(acc, radix), SmallDigits(DigitValue(Head(ds)))))

SignOf(s) == IF s # <<>> /\ Head(s) = "-" THEN -1 ELSE 1

DropSign(s) == IF s # <<>> /\ Head(s) \in {"-", "+"} THEN Tail(s) ELSE s

\* parseInt(text): undefined reads as the text 'undefined', which is NaN.
ParseInt(v) ==
    IF v = Undefined THEN NaN
    ELSE LET t == TrimStart(v[1])
             rest == DropSign(t)
             hex == Len(rest) >= 2 /\ rest[1] = "0" /\ rest[2] \in {"x", "X"}
             ds == IF hex THEN TakeWhile(Drop(rest, 2), HexDigits)
                   ELSE TakeWhile(rest, DecimalDigits)
         IN  IF ds = <<>> THEN NaN
             ELSE Finite(SignOf(t), DigitsValue(ds, IF hex THEN 16 ELSE 10, <<>>), 0)

RECURSIVE SmallValue(_, _)
SmallValue(ds, acc) ==
    IF ds = <<>> THEN acc ELSE SmallValue(Tail(ds), acc * 10 + DigitValue(Head(ds)))

\* parseFloat(text)
ParseFloat(v) ==
    IF v = Undefined THEN NaN
    ELSE LET t == TrimStart(v[1])
             sign == SignOf(t)
             rest == DropSign(t)
             int == TakeWhile(rest, DecimalDigits)
             afterInt == Drop(rest, Len(int))
             hasPoint == afterInt # <<>> /\ Head(afterInt) = "."
             frac == IF hasPoint THEN TakeWhile(Tail(afterInt), DecimalDigits) ELSE <<>>
             afterFrac == IF hasPoint THEN Drop(afterInt, 1 + Len(frac)) ELSE afterInt
             hasE == afterFrac # <<>> /\ Head(afterFrac) \in {"e", "E"}
             expSign == IF hasE THEN SignOf(Tail(afterFrac)) ELSE 1
             expDigits == IF hasE
                          THEN TakeWhile(DropSign(Tail(afterFrac)), DecimalDigits) ELSE <<>>
             exponent == expSign * SmallValue(expDigits, 0)
             mag == DigitsValue(int \o frac, 10, <<>>)
             scale == Len(frac) - exponent
         IN  IF rest # <<>> /\ Head(rest) = "Infinity" THEN Infinite(sign)
             ELSE IF int = <<>> /\ frac = <<>> THEN NaN
             ELSE IF scale < 0 THEN Finite(sign, NatShift(mag, -scale), 0)
             ELSE Finite(sign, mag, scale)

\* --------------------------------------------------- toFixed(2), Math.floor
DigitChar(n) ==
    CASE n = 0 -> "0" [] n = 1 -> "1" [] n = 2 -> "2" [] n = 3 -> "3" [] n = 4 -> "4"
      [] n = 5 -> "5" [] n = 6 -> "6" [] n = 7 -> "7" [] n = 8 -> "8" [] n = 9 -> "9"

DigitText(d) == [i \in 1..Len(d) |-> DigitChar(d[i])]

\* The text of sign * h / 100 with two decimals.
FixedText(negative, h) ==
    LET padded == Zeros(3 - Len(h)) \o h
    IN  (IF negative THEN <<"-">> ELSE <<>>)
        \o DigitText(SubSeq(padded, 1, Len(padded) - 2))
        \o <<".">> \o DigitText(SubSeq(padded, Len(padded) - 1, Len(padded)))

\* n / d rounded to the nearest integer, the larger one at a tie.
RoundHalfUp(n, d) ==
    LET qr == NatDivMod(n, d)
    IN  IF NatLess(NatMulSmall(qr.r, 2), d) THEN qr.q ELSE NatAdd(qr.q, <<1>>)

\* The integers toFixed may take for n / d.  At a tie it is the larger one
\* when the number is held exactly (exact); otherwise the rounding error of
\* the floating-point number decides, and either may come out.
Rounded(n, d, exact) ==
    LET qr == NatDivMod(n, d)
        twice == NatMulSmall(qr.r, 2)
    IN  IF NatLess(twice, d) THEN {qr.q}
        ELSE IF NatLess(d, twice) \/ exact THEN {NatAdd(qr.q, <<1>>)}
        ELSE {qr.q, NatAdd(qr.q, <<1>>)}

\* The texts x.toFixed(2) may give for a number read by parseFloat.  A
\* decimal tie is held exactly only when the number is a multiple of 1/8.
FixedOfDecimal(x) ==
    IF x.kind = "nan" THEN {<<"NaN">>}
    ELSE IF x.kind = "inf"
         THEN {(IF x.sign < 0 THEN <<"-">> ELSE <<>>) \o <<"Infinity">>}
    ELSE IF x.scale <= 2
         THEN {FixedText(x.sign < 0 /\ x.mag # <<>>, NatShift(x.mag, 2 - x.scale))}
    ELSE {FixedText(x.sign < 0, h) :
              h \in Rounded(x.mag, NatShift(<<1>>, x.scale - 2),
                            NatDivMod(NatMulSmall(x.mag, 8), NatShift(<<1>>, x.scale)).r = <<>>)}

\* Math.floor(x)
Floor(x) ==
    IF x.kind # "fin" THEN x
    ELSE LET qr == NatDivMod(x.mag, NatShift(<<1>>, x.scale))
         IN  IF x.sign < 0 /\ qr.r # <<>> THEN Finite(-1, NatAdd(qr.q, <<1>>), 0)
             ELSE Finite(x.sign, qr.q, 0)

\* A number as JSON.stringify writes it: NaN and the infinities become
\* null, -0 becomes 0.
JsonNumber(x) ==
    IF x.kind # "fin" THEN Undefined
    ELSE IF x.mag = <<>> THEN Some(Finite(1, <<>>, 0))
    ELSE Some(x)

\* --------------------------------------------------------- program constants
DefaultPort == 22
ReadyTimeout == 15000
KeyFileMode == 384
MinColumns == 11
CommandColumn == 10
CommandMax == 50
MaxRows == 20
BytesPerGigabyte == <<1, 0, 7, 3, 7, 4, 1, 8, 2, 4>>
Sentinel == <<"-", "-", "-">>
ValidationStatus == 400
CatchStatus == 500
OkStatus == 200

\* ------------------------------------------------------------------ messages
InvalidBodyMessage == <<"Invalid request body">>
MissingFieldMessage == <<"Missing required fields: host, username">>
MissingCredentialMessage == <<"Either private key or password is required">>
PPKMessage ==
    <<"PPK format detected. Please convert to OpenSSH format:", "\n", "\n",
      "1. Open PuTTYgen", "\n", "2. Load your .ppk file", "\n",
      "3. Go to Conversions -> Export OpenSSH key", "\n",
      "4. Save and upload the converted .pem file", "\n", "\n",
      "Or use command: puttygen yourkey.ppk -O private-openssh -o yourkey.pem">>
ScalarFailedMessage == <<"Failed to execute system commands">>
DefaultErrorMessage == <<"Failed to fetch remote system info">>
AuthFailedMessage ==
    <<"Authentication failed. Please check your username and private key.">>
TimeoutMessage == <<"Connection timeout. Please check the host and port.">>
RefusedMessage ==
    <<"Connection refused. Please check if SSH is running on the remote host.">>
KeyFormatMessage ==
    <<"Unsupported private key format. Please convert your PPK file to OpenSSH format:",
      "\n", "\n", "1. Open PuTTYgen", "\n",
      "2. Load your .ppk file (Conversions > Import key)", "\n",
      "3. Go to Conversions > Export OpenSSH key", "\n",
      "4. Save the file and use it here", "\n", "\n",
      "Or use command line: puttygen yourkey.ppk -O private-openssh -o yourkey.pem">>

\* The substrings the catch block looks for in error.message.
AuthFailedMarker == <<"All configured authentication methods failed">>
TimedOutMarker == <<"Timed out">>
RefusedMarker == <<"ECONNREFUSED">>
KeyFormatMarker == <<"Unsupported key format">>
KeyParseMarker == <<"Cannot parse privateKey">>

\* 'PuTTY-User-Key-File', kept in two symbols so that a payload may hold a
\* broken marker.
PPKMarker == <<"PuTTY-User-Key", "-File">>

\* ------------------------------------------------------------- validation
\* A variant of MissingRequired that forgets the username.
MissingRequired_HostOnly(b) == ~TruthyStr(b.host)

\* if (!host || !username)
MissingRequired(b) == ~TruthyStr(b.host) \/ ~TruthyStr(b.username)

\* A variant of NoCredential that tests for undefined instead of falsy.
NoCredential_UndefinedOnly(b) == b.privateKey = Undefined /\ b.password = Undefined

\* if (!privateKey && !password)
NoCredential(b) == ~TruthyStr(b.privateKey) /\ ~TruthyStr(b.password)

\* A variant of UsePassword that lets a password win over a key.
UsePassword_IgnoresKey(b) == TruthyStr(b.password)

\* if (password && !privateKey)
UsePassword(b) == TruthyStr(b.password) /\ ~TruthyStr(b.privateKey)

\* else if (privateKey)
UseKey(b) == ~UsePassword(b) /\ TruthyStr(b.privateKey)

\* A variant of NormalizeKey without the last replace.
NormalizeKey_CRLFOnly(k) ==
    Trim(ReplaceAll(ReplaceAll(k, <<"\\", "n">>, <<"\n">>), <<"\r", "\n">>, <<"\n">>))

\* privateKey.replace(/\\n/g,'\n').replace(/\r\n/g,'\n').replace(/\r/g,'\n').trim()
NormalizeKey(k) ==
    Trim(ReplaceAll(ReplaceAll(ReplaceAll(k, <<"\\", "n">>, <<"\n">>),
                               <<"\r", "\n">>, <<"\n">>),
                    <<"\r">>, <<"\n">>))

\* A variant of IsPPK that looks at the start of the key only.
IsPPK_HeaderOnly(processedKey) ==
    Len(processedKey) >= Len(PPKMarker)
    /\ SubSeq(processedKey, 1, Len(PPKMarker)) = PPKMarker

\* processedKey.includes('PuTTY-User-Key-File')
IsPPK(processedKey) == Includes(processedKey, PPKMarker)

\* port || 22
PortOf(b) == IF TruthyNum(b.port) THEN b.port[1] ELSE DefaultPort

BaseConfig(b) ==
    [host |-> b.host[1], port |-> PortOf(b), username |-> b.username[1],
     readyTimeout |-> ReadyTimeout, tryKeyboard |-> TRUE,
     password |-> Undefined, privateKeyPath |-> Undefined, passphrase |-> Undefined]

PasswordConfig(b) == [BaseConfig(b) EXCEPT !.password = b.password]

\* A variant of KeyConfig that also hands the password over.
KeyConfig_WithPassword(b, path) ==
    [BaseConfig(b) EXCEPT !.privateKeyPath = Some(path),
                          !.password = b.password,
                          !.passphrase = IF TruthyStr(b.passphrase)
                                         THEN b.passphrase ELSE Undefined]

\* connectionConfig.privateKeyPath = keyFilePath; passphrase if truthy.
KeyConfig(b, path) ==
    [BaseConfig(b) EXCEPT !.privateKeyPath = Some(path),
                          !.passphrase = IF TruthyStr(b.passphrase)
                                         THEN b.passphrase ELSE Undefined]

\* ------------------------------------------------------------- file system
Absent == Undefined

\* writeFileSync(path, data): the file holds data afterwards.
WriteFileSync(fs, path, data) == [fs EXCEPT ![path] = Some(data)]

\* unlinkSync(path) inside try/catch: the file is gone afterwards, unless
\* the call fails (EPERM, EBUSY), which leaves the file; what it throws, also
\* the ENOENT for a file that is already gone, is swallowed.
UnlinkSync(fs, path, fails) == IF fails THEN fs ELSE [fs EXCEPT ![path] = Absent]

\* if (keyFilePath) { try { unlinkSync(keyFilePath) } catch (e) {} }
CleanupKeyFile(fs, kp, fails) ==
    IF kp # Undefined THEN UnlinkSync(fs, kp[1], fails) ELSE fs

\* A variant of CatchCleanupKeyFile that leaves the file.
CatchCleanupKeyFile_Skipped(fs, kp, fails) == fs

\* The same statement of the catch block.
CatchCleanupKeyFile(fs, kp, fails) ==
    IF kp # Undefined THEN UnlinkSync(fs, kp[1], fails) ELSE fs

\* ssh.dispose(): the connection state afterwards.
Dispose(isConnected) == FALSE

\* A variant of CatchDispose that leaves the session open.
CatchDispose_Skipped(isConnected) == isConnected

\* if (ssh.isConnected()) { ssh.dispose() }: the connection state afterwards.
CatchDispose(isConnected) == IF isConnected THEN FALSE ELSE isConnected

\* ------------------------------------------------------------ catch block
MessageHas(message, marker) == message # Undefined /\ Includes(message[1], marker)

\* A variant of ClassifyError without the ECONNREFUSED branch.
ClassifyError_RefusedRaw(message) ==
    IF MessageHas(message, AuthFailedMarker) THEN AuthFailedMessage
    ELSE IF MessageHas(message, TimedOutMarker) THEN TimeoutMessage
    ELSE IF MessageHas(message, KeyFormatMarker) \/ MessageHas(message, KeyParseMarker)
         THEN KeyFormatMessage
    ELSE IF TruthyStr(message) THEN message[1] ELSE DefaultErrorMessage

\* let errorMessage = error.message || '...'; then the if/else-if chain.
ClassifyError(message) ==
    IF MessageHas(message, AuthFailedMarker) THEN AuthFailedMessage
    ELSE IF MessageHas(message, TimedOutMarker) THEN TimeoutMessage
    ELSE IF MessageHas(message, RefusedMarker) THEN RefusedMessage
    ELSE IF MessageHas(message, KeyFormatMarker) \/ MessageHas(message, KeyParseMarker)
         THEN KeyFormatMessage
    ELSE IF TruthyStr(message) THEN message[1] ELSE DefaultErrorMessage

ErrorResponse(status, text) == [status |-> status, error |-> Some(text), data |-> Undefined]

\* The four early returns and the return of the catch block.
InvalidBodyResponse == ErrorResponse(ValidationStatus, InvalidBodyMessage)

MissingFieldResponse == ErrorResponse(ValidationStatus, MissingFieldMessage)

MissingCredentialResponse == ErrorResponse(ValidationStatus, MissingCredentialMessage)

\* A variant of PPKResponse with the status of the catch block.
PPKResponse_ServerError == ErrorResponse(CatchStatus, PPKMessage)

PPKResponse == ErrorResponse(ValidationStatus, PPKMessage)

\* A variant of CatchResponse with the status of the early returns.
CatchResponse_ClientError(message) == ErrorResponse(ValidationStatus, ClassifyError(message))

CatchResponse(message) == ErrorResponse(CatchStatus, ClassifyError(message))

\* ------------------------------------------------------------ probe parsing
\* A variant of ProbeFailed that takes a null exit code for success.
ProbeFailed_PositiveOnly(res, pres) == res.code # Undefined /\ res.code[1] > 0

\* A variant of ProbeFailed that checks the process command's exit code too.
ProbeFailed_EitherCommand(res, pres) == res.code # Some(0) \/ pres.code # Some(0)

\* if (result.code !== 0), evaluated once both commands have resolved.
ProbeFailed(res, pres) == res.code # Some(0)

\* .filter(line => line.trim())
NonBlank(line) == Trim(line) # <<>>

\* A variant of TooShort that asks for a twelfth column.
TooShort_TwelveColumns(parts) == Len(parts) <= MinColumns

\* if (parts.length < 11) return null
TooShort(parts) == Len(parts) < MinColumns

\* A variant of CommandOf that keeps the whole command.
CommandOf_Uncut(parts) == Join(SubSeq(parts, CommandColumn + 1, Len(parts)), <<" ">>)

\* parts.slice(10).join(' ').substring(0, 50)
CommandOf(parts) ==
    Prefix(Join(SubSeq(parts, CommandColumn + 1, Len(parts)), <<" ">>), CommandMax)

\* One row of the process table (lines 175-187), as the JSON answer holds it.
ProcessRow(parts) ==
    [user |-> parts[1],
     pid |-> JsonNumber(ParseInt(Some(parts[2]))),
     cpu |-> JsonNumber(ParseFloat(Some(parts[3]))),
     mem |-> JsonNumber(ParseFloat(Some(parts[4]))),
     vsz |-> JsonNumber(ParseInt(Some(parts[5]))),
     rss |-> JsonNumber(ParseInt(Some(parts[6]))),
     tty |-> parts[7], stat |-> parts[8], start |-> parts[9], time |-> parts[10],
     command |-> CommandOf(parts)]

\* A variant of RowsOf that lists the rows in reverse.
RowsOf_Reversed(lines) ==
    LET parts(i) == SplitWhitespace(Trim(lines[i]))
        keep == SelectSeq([i \in 1..Len(lines) |-> i], LAMBDA i : ~TooShort(parts(i)))
    IN  [j \in 1..Len(keep) |-> ProcessRow(parts(keep[Len(keep) + 1 - j]))]

\* .map(line => ...).filter(p => p !== null)
RowsOf(lines) ==
    LET parts(i) == SplitWhitespace(Trim(lines[i]))
        keep == SelectSeq([i \in 1..Len(lines) |-> i], LAMBDA i : ~TooShort(parts(i)))
    IN  [j \in 1..Len(keep) |-> ProcessRow(parts(keep[j]))]

\* A variant of ParseProcesses that keeps every row.
ParseProcesses_Uncapped(stdout) ==
    RowsOf(SelectSeq(Split(stdout, <<"\n">>), NonBlank))

ParseProcesses(stdout) ==
    Slice0(RowsOf(SelectSeq(Split(stdout, <<"\n">>), NonBlank)), MaxRows)

\* A variant of Commands that asks for the cpu model before the cpu cores.
Commands_ModelFirst ==
    <<"cpuUsage", "cpuModel", "cpuCores", "memTotal", "memUsed", "memFree",
      "diskTotal", "diskUsed", "diskAvailable", "diskUsagePercent", "platform",
      "distro", "arch", "hostname", "uptime", "processesAll", "processesRunning">>

\* The probe commands in the order of the array of lines 100-123, each named
\* after the constant its output is read into.
Commands ==
    <<"cpuUsage", "cpuCores", "cpuModel", "memTotal", "memUsed", "memFree",
      "diskTotal", "diskUsed", "diskAvailable", "diskUsagePercent", "platform",
      "distro", "arch", "hostname", "uptime", "processesAll", "processesRunning">>

\* result.stdout.trim().split('---').map(s => s.trim())
SegmentsOf(stdout) ==
    LET raw == Split(Trim(stdout), Sentinel)
    IN  [i \in 1..Len(raw) |-> Trim(raw[i])]

\* results[i]: undefined past the end of the array.
Segment(results, i) == IF i + 1 <= Len(results) THEN Some(results[i + 1]) ELSE Undefined

\* A variant of TextOrElse that takes a missing text as the empty text.
TextOrElse_Empty(v, fallback) == IF v # Undefined THEN v[1] ELSE <<>>

\* text || fallback
TextOrElse(v, fallback) == IF TruthyStr(v) THEN v[1] ELSE fallback

\* A variant of ScalarFields whose mem-total has no fallback.
ScalarFields_RawTotal(results, host) ==
    [cpuUsage |-> OrElse(ParseFloat(Segment(results, 0)), Small(0)),
     cpuCores |-> OrElse(ParseInt(Segment(results, 1)), Small(1)),
     cpuModel |-> TextOrElse(Segment(results, 2), <<"Unknown">>),
     memTotal |-> OrElse(ParseInt(Segment(results, 3)), Small(0)),
     memUsed |-> OrElse(ParseInt(Segment(results, 4)), Small(0)),
     memFree |-> OrElse(ParseInt(Segment(results, 5)), Small(0)),
     diskTotal |-> OrElse(ParseInt(Segment(results, 6)), Small(1)),
     diskUsed |-> OrElse(ParseInt(Segment(results, 7)), Small(0)),
     diskAvailable |-> OrElse(ParseInt(Segment(results, 8)), Small(0)),
     diskUsagePercent |-> OrElse(ParseFloat(Segment(results, 9)), Small(0)),
     platform |-> TextOrElse(Segment(results, 10), <<"Linux">>),
     distro |-> TextOrElse(Segment(results, 11), <<"Unknown">>),
     arch |-> TextOrElse(Segment(results, 12), <<"Unknown">>),
     hostname |-> TextOrElse(Segment(results, 13), host),
     uptime |-> OrElse(ParseFloat(Segment(results, 14)), Small(0)),
     processesAll |-> OrElse(ParseInt(Segment(results, 15)), Small(0)),
     processesRunning |-> OrElse(ParseInt(Segment(results, 16)), Small(0))]

\* The constants of lines 149-165.
ScalarFields(results, host) ==
    [cpuUsage |-> OrElse(ParseFloat(Segment(results, 0)), Small(0)),
     cpuCores |-> OrElse(ParseInt(Segment(results, 1)), Small(1)),
     cpuModel |-> TextOrElse(Segment(results, 2), <<"Unknown">>),
     memTotal |-> OrElse(ParseInt(Segment(results, 3)), Small(1)),
     memUsed |-> OrElse(ParseInt(Segment(results, 4)), Small(0)),
     memFree |-> OrElse(ParseInt(Segment(results, 5)), Small(0)),
     diskTotal |-> OrElse(ParseInt(Segment(results, 6)), Small(1)),
     diskUsed |-> OrElse(ParseInt(Segment(results, 7)), Small(0)),
     diskAvailable |-> OrElse(ParseInt(Segment(results, 8)), Small(0)),
     diskUsagePercent |-> OrElse(ParseFloat(Segment(results, 9)), Small(0)),
     platform |-> TextOrElse(Segment(results, 10), <<"Linux">>),
     distro |-> TextOrElse(Segment(results, 11), <<"Unknown">>),
     arch |-> TextOrElse(Segment(results, 12), <<"Unknown">>),
     hostname |-> TextOrElse(Segment(results, 13), host),
     uptime |-> OrElse(ParseFloat(Segment(results, 14)), Small(0)),
     processesAll |-> OrElse(ParseInt(Segment(results, 15)), Small(0)),
     processesRunning |-> OrElse(ParseInt(Segment(results, 16)), Small(0))]

\* A variant of Gigabytes that divides by 1000^3.
Gigabytes_Decimal(x) ==
    FixedText(x.sign < 0 /\ x.mag # <<>>, RoundHalfUp(NatShift(x.mag, 2), NatShift(<<1>>, 9)))

\* (x / (1024 ** 3)).toFixed(2) for an integer x; the quotient is exact.
Gigabytes(x) ==
    FixedText(x.sign < 0 /\ x.mag # <<>>, RoundHalfUp(NatShift(x.mag, 2), BytesPerGigabyte))

\* The texts ((used / total) * 100).toFixed(2) may give for integers used
\* and total: 'NaN' for 0 / 0, an infinity for any other division by 0.  A
\* tie is held exactly only when used / total is a multiple of 1/32.
UsagePercent(used, total) ==
    IF total.mag = <<>>
    THEN {IF used.mag = <<>> THEN <<"NaN">>
          ELSE (IF used.sign # total.sign THEN <<"-">> ELSE <<>>) \o <<"Infinity">>}
    ELSE {FixedText(used.mag # <<>> /\ used.sign # total.sign, h) :
              h \in Rounded(NatShift(used.mag, 4), total.mag,
                            NatDivMod(NatMulSmall(used.mag, 32), total.mag).r = <<>>)}

\* A variant of NetworkStats that reports the free memory as the download rate.
NetworkStats_FromProbe(f) ==
    [download |-> Gigabytes(f.memFree), upload |-> <<"0", ".", "0", "0">>]

\* network: { download: '0.00', upload: '0.00' }
NetworkStats(f) == [download |-> <<"0", ".", "0", "0">>, upload |-> <<"0", ".", "0", "0">>]

\* A variant of DiskUsagePercent that computes it from the used and total bytes.
DiskUsagePercent_Computed(f) == UsagePercent(f.diskUsed, f.diskTotal)

\* disk.usagePercent: the Use% column that df printed.
DiskUsagePercent(f) == FixedOfDecimal(f.diskUsagePercent)

\* const systemData = { ... } (lines 192-228), as the JSON answer holds it,
\* given the texts the three toFixed(2) calls on inexact numbers gave.
BuildSnapshot(f, list, cpuUsage, memoryPercent, diskPercent) ==
    [cpu |-> [usage |-> cpuUsage,
              cores |-> JsonNumber(f.cpuCores),
              model |-> f.cpuModel,
              speed |-> 0],
     memory |-> [total |-> Gigabytes(f.memTotal),
                 used |-> Gigabytes(f.memUsed),
                 free |-> Gigabytes(f.memFree),
                 usagePercent |-> memoryPercent],
     disk |-> [total |-> Gigabytes(f.diskTotal),
               used |-> Gigabytes(f.diskUsed),
               available |-> Gigabytes(f.diskAvailable),
               usagePercent |-> diskPercent],
     network |-> NetworkStats(f),
     system |-> [platform |-> f.platform,
                 distro |-> f.distro,
                 arch |-> f.arch,
                 hostname |-> f.hostname,
                 uptime |-> JsonNumber(Floor(f.uptime))],
     processes |-> [all |-> JsonNumber(f.processesAll),
                    running |-> JsonNumber(f.processesRunning),
                    blocked |-> 0,
                    list |-> list]]

\* The snapshots lines 147-228 may build from the two command results.
Snapshots(res, pres, host) ==
    LET f == ScalarFields(SegmentsOf(res.stdout), host)
        list == ParseProcesses(pres.stdout)
    IN  {BuildSnapshot(f, list, cpuUsage, memoryPercent, diskPercent) :
            cpuUsage \in FixedOfDecimal(f.cpuUsage),
            memoryPercent \in UsagePercent(f.memUsed, f.memTotal),
            diskPercent \in DiskUsagePercent(f)}

OkResponse(data) == [status |-> OkStatus, error |-> Undefined, data |-> Some(data)]

\* ------------------------------------------------------------------ inputs
Hosts == {Undefined, Some(<<>>), Some(<<"10.0.0.5">>)}
Usernames == {Undefined, Some(<<>>), Some(<<"root">>)}
Passwords == {Undefined, Some(<<>>), Some(<<"x">>)}
Passphrases == {Undefined, Some(<<"pp">>)}
Ports == {Undefined, Some(0), Some(2222)}

KeySamples ==
    { <<"-----BEGIN", "\n", "b64", "\n", "-----END">>,
      <<"-----BEGIN", "\\", "n", "b64", "\r", "\n", "-----END", "\r">>,
      <<"PuTTY-User-Key", "-File", "-2: ssh-rsa", "\r", "\n", "b64">>,
      <<" ", "\\", "n", "Comment", "\n", "PuTTY-User-Key", "-File">>,
      <<"PuTTY-User-Key", "\r", "-File">>,
      <<" ", "\n">> }

PrivateKeys == {Undefined, Some(<<>>)} \cup {Some(k) : k \in KeySamples}

\* request.json(): Undefined stands for a body that is not JSON.
Bodies ==
    {Undefined} \cup
    {Some(b) : b \in [host : Hosts, port : Ports, username : Usernames,
                      privateKey : PrivateKeys, passphrase : Passphrases,
                      password : Passwords]}

\* Errors ssh.connect rejects with (error.message; Undefined: no message).
ConnectErrors ==
    { Some(<<"All configured authentication methods failed">>),
      Some(<<"Timed out", " while waiting for handshake">>),
      Some(<<"connect ", "ECONNREFUSED", " 10.0.0.5:22">>),
      Some(<<"Cannot parse privateKey", ": ", "Unsupported key format">>),
      Some(<<"getaddrinfo ENOTFOUND">>),
      Some(<<>>),
      Undefined }

\* Errors ssh.execCommand rejects with.
ExecErrors ==
    { Some(<<"Not connected to server">>), Some(<<"read ", "ECONNRESET">>) }

\* writeFileSync into a directory that does not exist.
WriteError == Some(<<"ENOENT", ": no such file or directory, open">>)

\* result.code: a number, or null (Undefined) when the command was killed.
ExitCodes == {Some(0), Some(1), Undefined}

\* What each probe command prints on a host.
BaseFacts ==
    [cpuUsage |-> <<"1", "2", ".", "5">>,
     cpuCores |-> <<"4">>,
     cpuModel |-> <<"Intel">>,
     memTotal |-> <<"8", "5", "8", "9", "9", "3", "4", "5", "9", "2">>,
     memUsed |-> <<"4", "2", "9", "4", "9", "6", "7", "2", "9", "6">>,
     memFree |-> <<"2", "1", "4", "7", "4", "8", "3", "6", "4", "8">>,
     diskTotal |-> <<"1", "0", "0", "0">>,
     diskUsed |-> <<"4", "0", "0">>,
     diskAvailable |-> <<"6", "0", "0">>,
     diskUsagePercent |-> <<"3", "7">>,
     platform |-> <<"Linux">>,
     distro |-> <<"Ubuntu">>,
     arch |-> <<"x86_64">>,
     hostname |-> <<"vm1">>,
     uptime |-> <<"3", "6", "0", "0", ".", "5">>,
     processesAll |-> <<"1", "2", "0">>,
     processesRunning |-> <<"1", "1", "8">>]

\* One command's output: the text and its line end, or nothing.
Emitted(text) == IF text = <<>> THEN <<>> ELSE text \o <<"\n">>

\* The output of commands.join('; echo "---"; ') on a host with these facts.
RunCommands(cmds, facts) ==
    Join([i \in 1..Len(cmds) |-> Emitted(facts[cmds[i]])], Sentinel \o <<"\n">>)

\* The output of a host that prints one segment more, and no number for
\* its memory.
LongStdout ==
    RunCommands(Commands, [BaseFacts EXCEPT !.memTotal = <<"k">>])
        \o Sentinel \o <<"\n", "9", "\n">>

ScalarStdouts ==
    { RunCommands(Commands, BaseFacts),
      <<>>,
      <<"bash: free: command not found">>,
      LongStdout }

Word(c, n) == [i \in 1..n |-> c]

\* A line of ps aux: ten columns, then the command's words.
ProcessLine(tokens) == Join(tokens, <<" ">>)

Columns(pid, cpu) ==
    << <<"r", "o", "o", "t">>, pid, cpu, <<"0", ".", "1">>, <<"1", "0">>, <<"2", "0">>,
       <<"?">>, <<"S">>, <<"0", "9", ":", "0", "0">>, <<"0", ":", "0", "1">> >>

ProcessStdouts ==
    { <<>>,
      <<" ", "\n", "\n">>,
      <<"ps", ":", " ", "unknown", " ", "option">> \o <<"\n">>,
      ProcessLine(Columns(<<"1">>, <<"5", ".", "0">>) \o << <<"s", "s", "h", "d">> >>) \o <<"\n">>,
      ProcessLine(Columns(<<"7">>, <<"9", ".", "5">>)
                  \o << <<"p", "y">>, <<"-", "m">>, <<"h", "t", "t", "p">> >>) \o <<"\n">>
        \o ProcessLine(<< <<"r", "o", "o", "t">>, <<"1">>, <<"5", ".", "0">> >>) \o <<"\n">>
        \o ProcessLine(Columns(<<"1">>, <<"5", ".", "0">>) \o << <<"s", "s", "h", "d">> >>) }

CommandResults(stdouts) == [code : ExitCodes, stdout : stdouts]

\* A host whose probes always print the same facts and whose failures are
\* always the same ones; any other host may answer with every sample above.
SteadyHost == <<"10.0.0.7">>

\* What ssh.connect to host h may reject with.
HostConnectErrors(h) ==
    IF h = SteadyHost THEN {Some(<<"All configured authentication methods failed">>)}
    ELSE ConnectErrors

\* What ssh.execCommand on host h may reject with.
HostExecErrors(h) ==
    IF h = SteadyHost THEN {Some(<<"Not connected to server">>)} ELSE ExecErrors

\* What the scalar command may resolve to on host h.
HostScalarResults(h) ==
    IF h = SteadyHost
    THEN [code : {Some(0), Some(1)}, stdout : {RunCommands(Commands, BaseFacts)}]
    ELSE CommandResults(ScalarStdouts)

\* What the process command may resolve to on host h.
HostProcessResults(h) ==
    IF h = SteadyHost THEN {[code |-> Some(0), stdout |-> <<>>]}
    ELSE CommandResults(ProcessStdouts)

\* ------------------------------------------------------------------- state
VARIABLES
    pc,               \* where each request's handler is suspended
    body,             \* what request.json() yields
    keyFilePath,      \* let keyFilePath
    connected,        \* ssh.isConnected()
    result,           \* const result
    processesResult,  \* const processesResult
    response,         \* the NextResponse returned
    thrown,           \* the error the catch block received, and where it arose
    files,            \* the files of tmpdir()/ssh-keys
    tempDirExists,    \* whether tmpdir()/ssh-keys exists
    connectArgs,      \* the configurations ssh.connect was called with
    execArgs,         \* the commands ssh.execCommand was called with
    written,          \* the writeFileSync calls made
    keyRead,          \* the key the transport read from privateKeyPath
    aborted,          \* whether the caller has given up on the request
    faults,           \* which cleanup calls of a request fail
    trace,            \* the calls each request's handler has made, in order
    parseIn,          \* probe outputs handed to the parsing of lines 143-230
    parseOut,         \* what that parsing made of them
    systemData,         \* useState<SystemData | null>(null)
    loading,            \* useState(true)
    error,              \* useState<string | null>(null)
    cpuHistory,         \* useState<number[]>([])
    memoryHistory,      \* useState<number[]>([])
    isRemote,           \* useState(false)
    showConnectionForm, \* useState(false)
    interval,           \* whether the interval of the effect is set
    inFlight,           \* the fetches whose response has not arrived
    polls               \* how many fetches the dashboard has started

\* The state of the dashboard component.
dashboardVars == <<systemData, loading, error, cpuHistory, memoryHistory, isRemote,
                   showConnectionForm, interval, inFlight, polls>>

\* The state of the route handler.
handlerVars == <<pc, body, keyFilePath, connected, result, processesResult, response,
                 thrown, files, tempDirExists, connectArgs, execArgs, written, keyRead,
                 aborted, faults, trace, parseIn, parseOut>>

vars == <<handlerVars, dashboardVars>>

NoResponse == [status |-> 0, error |-> Undefined, data |-> Undefined]

InitLocals ==
    /\ keyFilePath = [r \in Requests |-> Undefined]
    /\ connected = [r \in Requests |-> FALSE]
    /\ result = [r \in Requests |-> Undefined]
    /\ processesResult = [r \in Requests |-> Undefined]
    /\ response = [r \in Requests |-> NoResponse]
    /\ thrown = [r \in Requests |-> Undefined]
    /\ files = [p \in Paths |-> Absent]
    /\ connectArgs = [r \in Requests |-> <<>>]
    /\ execArgs = [r \in Requests |-> <<>>]
    /\ written = [r \in Requests |-> <<>>]
    /\ keyRead = [r \in Requests |-> Undefined]
    /\ aborted = [r \in Requests |-> FALSE]
    /\ trace = [r \in Requests |-> <<>>]

\* The most fetches the dashboard starts.
MaxPolls == 4

\* A fetch the dashboard has started: the n-th, of '/api/remote-system' when
\* remote and of '/api/system' otherwise.
Fetch(n, remote) == [n |-> n, remote |-> remote]

\* The dashboard after its first render and the first run of its effect: the
\* defaults of lines 57-64, the fetch of line 130 under way, the interval of
\* line 131 set.
Mounted ==
    /\ systemData = Undefined
    /\ loading = TRUE
    /\ error = Undefined
    /\ cpuHistory = <<>>
    /\ memoryHistory = <<>>
    /\ isRemote = FALSE
    /\ showConnectionForm = FALSE
    /\ interval = TRUE
    /\ inFlight = {Fetch(1, FALSE)}
    /\ polls = 1

\* Every cleanup call does what it is called for.
NoFaults == [r \in Requests |-> [unlink |-> FALSE, dispose |-> FALSE]]

InitRequest ==
    /\ InitLocals
    /\ faults = NoFaults
    /\ tempDirExists \in BOOLEAN

\* One request, handled alone.
Init ==
    /\ pc = [r \in Requests |-> IF r = 1 THEN "json" ELSE "idle"]
    /\ \E b \in Bodies : body = [r \in Requests |-> IF r = 1 THEN b ELSE Undefined]
    /\ InitRequest
    /\ parseIn = Undefined
    /\ parseOut = Undefined
    /\ Mounted

\* The handler of request r goes on to make the calls steps.
Log(r, steps) == trace' = [trace EXCEPT ![r] = @ \o steps]

\* A return before the try block has called anything.
Return(r, resp) ==
    /\ response' = [response EXCEPT ![r] = resp]
    /\ pc' = [pc EXCEPT ![r] = "returned"]
    /\ Log(r, <<"return">>)

\* ssh.dispose() of line 132, then the unlinkSync of lines 135-141 when a
\* key file was written.
TeardownSteps(kp) == <<"dispose">> \o (IF kp # Undefined THEN <<"unlink">> ELSE <<>>)

\* A variant of SuccessSteps that parses before it tears down.
SuccessSteps_ParseFirst(kp) == <<"parse">> \o TeardownSteps(kp) \o <<"return">>

\* Lines 132-230 when the exit code is 0: teardown, then the parsing of
\* lines 147-228, then the return of line 230.
SuccessSteps(kp) == TeardownSteps(kp) \o <<"parse", "return">>

\* The calls of the catch block, lines 236-267; when ssh.dispose() throws,
\* that call is its last.
CatchSteps(isConnected, kp, escapes) ==
    IF isConnected /\ escapes THEN <<"dispose">>
    ELSE (IF isConnected THEN <<"dispose">> ELSE <<>>)
         \o (IF kp # Undefined THEN <<"unlink">> ELSE <<>>)
         \o <<"return">>

\* A variant of AfterCatch that starts over after a failed connect.
AfterCatch_Retry(at) == IF at = "connect" THEN "json" ELSE "returned"

\* Where the handler is once the catch block has run: it returns, whichever
\* step threw.
AfterCatch(at) == "returned"

\* catch (error) { ... }: entered with the file system fs and the connection
\* state isConnected the try block left behind.
\* When ssh.dispose() throws inside the catch block, the error leaves the
\* handler: nothing after line 236 runs and no response is returned.
\* done are the calls the try block made since the last await.
Catch(r, at, message, fs, isConnected, kp, done) ==
    /\ thrown' = [thrown EXCEPT ![r] = Some([at |-> at, message |-> message])]
    /\ Log(r, done \o CatchSteps(isConnected, kp, faults[r].dispose))
    /\ IF isConnected /\ faults[r].dispose
       THEN /\ connected' = [connected EXCEPT ![r] = isConnected]
            /\ files' = fs
            /\ response' = response
            /\ pc' = [pc EXCEPT ![r] = "threw"]
       ELSE /\ connected' = [connected EXCEPT ![r] = CatchDispose(isConnected)]
            /\ files' = CatchCleanupKeyFile(fs, kp, faults[r].unlink)
            /\ response' = [response EXCEPT ![r] = CatchResponse(message)]
            /\ pc' = [pc EXCEPT ![r] = AfterCatch(at)]

\* ------------------------------------------------------------- the handler
\* request.json() rejects: 400 'Invalid request body'.
ParseError(r) ==
    /\ pc[r] = "json"
    /\ body[r] = Undefined
    /\ Return(r, InvalidBodyResponse)
    /\ UNCHANGED <<dashboardVars, aborted, faults, parseIn, parseOut, body, keyFilePath, connected, result, processesResult, thrown,
                   files, tempDirExists, connectArgs, execArgs, written, keyRead>>

MissingField(r) ==
    /\ pc[r] = "json"
    /\ body[r] # Undefined
    /\ MissingRequired(body[r][1])
    /\ Return(r, MissingFieldResponse)
    /\ UNCHANGED <<dashboardVars, aborted, faults, parseIn, parseOut, body, keyFilePath, connected, result, processesResult, thrown,
                   files, tempDirExists, connectArgs, execArgs, written, keyRead>>

MissingCredential(r) ==
    /\ pc[r] = "json"
    /\ body[r] # Undefined
    /\ ~MissingRequired(body[r][1])
    /\ NoCredential(body[r][1])
    /\ Return(r, MissingCredentialResponse)
    /\ UNCHANGED <<dashboardVars, aborted, faults, parseIn, parseOut, body, keyFilePath, connected, result, processesResult, thrown,
                   files, tempDirExists, connectArgs, execArgs, written, keyRead>>

\* The body passed both checks of lines 25-38.
Accepted(r) ==
    /\ pc[r] = "json"
    /\ body[r] # Undefined
    /\ ~MissingRequired(body[r][1])
    /\ ~NoCredential(body[r][1])

\* The key branch is not taken (the password branch is, when its condition
\* holds), then ssh.connect(connectionConfig) is called.
ConnectWithPassword(r) ==
    /\ Accepted(r)
    /\ ~UseKey(body[r][1])
    /\ connectArgs' = [connectArgs EXCEPT ![r] =
           Append(@, IF UsePassword(body[r][1]) THEN PasswordConfig(body[r][1])
                     ELSE BaseConfig(body[r][1]))]
    /\ pc' = [pc EXCEPT ![r] = "connect"]
    /\ Log(r, <<"connect">>)
    /\ UNCHANGED <<dashboardVars, aborted, faults, parseIn, parseOut, body, keyFilePath, connected, result, processesResult, response,
                   thrown, files, tempDirExists, execArgs, written, keyRead>>

\* Key branch, the key is a PPK container: 400 with the conversion steps.
PPKRejected(r) ==
    /\ Accepted(r)
    /\ UseKey(body[r][1])
    /\ IsPPK(NormalizeKey(body[r][1].privateKey[1]))
    /\ Return(r, PPKResponse)
    /\ UNCHANGED <<dashboardVars, aborted, faults, parseIn, parseOut, body, keyFilePath, connected, result, processesResult, thrown,
                   files, tempDirExists, connectArgs, execArgs, written, keyRead>>

\* Key branch: mkdirSync leaves the directory in place, the key is written
\* to a fresh name, then ssh.connect(connectionConfig) is called.
ConnectWithKey(r) ==
    /\ Accepted(r)
    /\ UseKey(body[r][1])
    /\ ~IsPPK(NormalizeKey(body[r][1].privateKey[1]))
    /\ \E path \in Paths :
         LET processedKey == NormalizeKey(body[r][1].privateKey[1]) IN
         /\ tempDirExists' = TRUE
         /\ keyFilePath' = [keyFilePath EXCEPT ![r] = Some(path)]
         /\ files' = WriteFileSync(files, path, processedKey)
         /\ written' = [written EXCEPT ![r] =
                Append(@, [path |-> path, data |-> processedKey, mode |-> KeyFileMode])]
         /\ connectArgs' = [connectArgs EXCEPT ![r] = Append(@, KeyConfig(body[r][1], path))]
    /\ pc' = [pc EXCEPT ![r] = "connect"]
    /\ Log(r, <<"write", "connect">>)
    /\ UNCHANGED <<dashboardVars, aborted, faults, parseIn, parseOut, body, connected, result, processesResult, response, thrown,
                   execArgs, keyRead>>

\* Key branch: mkdirSync fails (the failure is swallowed) and the directory
\* is not there, so writeFileSync throws into the catch block.
WriteKeyFails(r) ==
    /\ Accepted(r)
    /\ UseKey(body[r][1])
    /\ ~IsPPK(NormalizeKey(body[r][1].privateKey[1]))
    /\ ~tempDirExists
    /\ \E path \in Paths :
         /\ keyFilePath' = [keyFilePath EXCEPT ![r] = Some(path)]
         /\ Catch(r, "write", WriteError, files, connected[r], Some(path), <<"write">>)
    /\ UNCHANGED <<dashboardVars, aborted, faults, parseIn, parseOut, body, result, processesResult, tempDirExists, connectArgs,
                   execArgs, written, keyRead>>

UsesKeyFile(r) == keyFilePath[r] # Undefined

\* await ssh.connect resolves; ssh.execCommand(fullCommand) is called.
ConnectResolves(r) ==
    /\ pc[r] = "connect"
    /\ UsesKeyFile(r) =>
         /\ files[keyFilePath[r][1]] # Absent
         /\ files[keyFilePath[r][1]][1] # <<>>
    /\ keyRead' = [keyRead EXCEPT ![r] =
           IF UsesKeyFile(r) THEN files[keyFilePath[r][1]] ELSE Undefined]
    /\ connected' = [connected EXCEPT ![r] = TRUE]
    /\ execArgs' = [execArgs EXCEPT ![r] = Append(@, "fullCommand")]
    /\ pc' = [pc EXCEPT ![r] = "execScalar"]
    /\ Log(r, <<"connected", "execScalar">>)
    /\ UNCHANGED <<dashboardVars, aborted, faults, parseIn, parseOut, body, keyFilePath, result, processesResult, response, thrown,
                   files, tempDirExists, connectArgs, written>>

\* await ssh.connect rejects.
ConnectRejects(r) ==
    /\ pc[r] = "connect"
    /\ \E e \in HostConnectErrors(body[r][1].host[1]) :
         /\ MessageHas(e, KeyParseMarker) => UsesKeyFile(r)
         /\ Catch(r, "connect", e, files, connected[r], keyFilePath[r], <<>>)
    /\ UNCHANGED <<dashboardVars, aborted, faults, parseIn, parseOut, body, keyFilePath, result, processesResult, tempDirExists,
                   connectArgs, execArgs, written, keyRead>>

\* await ssh.execCommand(fullCommand) resolves; the process command is called.
ScalarResolves(r) ==
    /\ pc[r] = "execScalar"
    /\ \E res \in HostScalarResults(body[r][1].host[1]) :
         result' = [result EXCEPT ![r] = Some(res)]
    /\ execArgs' = [execArgs EXCEPT ![r] = Append(@, "topProcessesCmd")]
    /\ pc' = [pc EXCEPT ![r] = "execProcesses"]
    /\ Log(r, <<"execProcesses">>)
    /\ UNCHANGED <<dashboardVars, aborted, faults, parseIn, parseOut, body, keyFilePath, connected, processesResult, response, thrown,
                   files, tempDirExists, connectArgs, written, keyRead>>

ScalarRejects(r) ==
    /\ pc[r] = "execScalar"
    /\ \E e \in HostExecErrors(body[r][1].host[1]) :
         Catch(r, "execScalar", e, files, connected[r], keyFilePath[r], <<>>)
    /\ UNCHANGED <<dashboardVars, aborted, faults, parseIn, parseOut, body, keyFilePath, result, processesResult, tempDirExists,
                   connectArgs, execArgs, written, keyRead>>

ProcessesRejects(r) ==
    /\ pc[r] = "execProcesses"
    /\ \E e \in HostExecErrors(body[r][1].host[1]) :
         Catch(r, "execProcesses", e, files, connected[r], keyFilePath[r], <<>>)
    /\ UNCHANGED <<dashboardVars, aborted, faults, parseIn, parseOut, body, keyFilePath, result, processesResult, tempDirExists,
                   connectArgs, execArgs, written, keyRead>>

\* The process command resolves and the scalar exit code is 0: dispose,
\* delete the key file, parse, return the snapshot.
ReturnSnapshot(r) ==
    /\ pc[r] = "execProcesses"
    /\ ~faults[r].dispose
    /\ \E pres \in HostProcessResults(body[r][1].host[1]) :
         /\ ~ProbeFailed(result[r][1], pres)
         /\ processesResult' = [processesResult EXCEPT ![r] = Some(pres)]
         /\ \E data \in Snapshots(result[r][1], pres, body[r][1].host[1]) :
              /\ response' = [response EXCEPT ![r] = OkResponse(data)]
              /\ pc' = [pc EXCEPT ![r] = "returned"]
    /\ Log(r, SuccessSteps(keyFilePath[r]))
    /\ connected' = [connected EXCEPT ![r] = Dispose(connected[r])]
    /\ files' = CleanupKeyFile(files, keyFilePath[r], faults[r].unlink)
    /\ UNCHANGED <<dashboardVars, aborted, faults, parseIn, parseOut, body, keyFilePath, result, thrown, tempDirExists, connectArgs,
                   execArgs, written, keyRead>>

\* The process command resolves and the scalar exit code is not 0: dispose,
\* delete the key file, throw into the catch block.
ScalarExitThrows(r) ==
    /\ pc[r] = "execProcesses"
    /\ ~faults[r].dispose
    /\ \E pres \in HostProcessResults(body[r][1].host[1]) :
         /\ ProbeFailed(result[r][1], pres)
         /\ processesResult' = [processesResult EXCEPT ![r] = Some(pres)]
    /\ Catch(r, "exitCode", Some(ScalarFailedMessage),
             CleanupKeyFile(files, keyFilePath[r], faults[r].unlink), Dispose(connected[r]),
             keyFilePath[r], TeardownSteps(keyFilePath[r]))
    /\ UNCHANGED <<dashboardVars, aborted, faults, parseIn, parseOut, body, keyFilePath, result, tempDirExists, connectArgs, execArgs,
                   written, keyRead>>

\* What a throwing ssh.dispose() carries.
DisposeError == Some(<<"dispose failed">>)

\* The process command resolves and ssh.dispose() of line 132 throws: the
\* unlink of lines 135-141 is skipped and the catch block is entered, with
\* the session in whatever state the failed call left it.
DisposeThrows(r) ==
    /\ pc[r] = "execProcesses"
    /\ faults[r].dispose
    /\ \E pres \in HostProcessResults(body[r][1].host[1]) :
         processesResult' = [processesResult EXCEPT ![r] = Some(pres)]
    /\ \E isConnected \in BOOLEAN :
         Catch(r, "dispose", DisposeError, files, isConnected, keyFilePath[r], <<"dispose">>)
    /\ UNCHANGED <<dashboardVars, aborted, faults, parseIn, parseOut, body, keyFilePath, result, tempDirExists,
                   connectArgs, execArgs, written, keyRead>>

\* The caller gives up on a request that is under way. The handler never
\* looks at request.signal: nothing of the handler changes.
Abort(r) ==
    /\ pc[r] \in {"json", "connect", "execScalar", "execProcesses"}
    /\ ~aborted[r]
    /\ aborted' = [aborted EXCEPT ![r] = TRUE]
    /\ UNCHANGED <<dashboardVars, trace, faults, parseIn, parseOut, body, keyFilePath, connected, result,
                   processesResult, response, thrown, files, tempDirExists, pc,
                   connectArgs, execArgs, written, keyRead>>

Handle(r) ==
    \/ ParseError(r)
    \/ MissingField(r)
    \/ MissingCredential(r)
    \/ ConnectWithPassword(r)
    \/ PPKRejected(r)
    \/ ConnectWithKey(r)
    \/ WriteKeyFails(r)
    \/ ConnectResolves(r)
    \/ ConnectRejects(r)
    \/ ScalarResolves(r)
    \/ ScalarRejects(r)
    \/ ProcessesRejects(r)
    \/ ReturnSnapshot(r)
    \/ ScalarExitThrows(r)

Next == \E r \in Requests : Handle(r)

Spec == Init /\ [][Next]_vars

\* ------------------------------------------------- requests side by side
\* The key request r sends: each request has a key of its own.
RequestKey(r) == <<"-----BEGIN", "\n">> \o Word("k", r) \o <<"\n", "-----END">>

KeyBody(r) ==
    [host |-> Some(SteadyHost), port |-> Undefined, username |-> Some(<<"root">>),
     privateKey |-> Some(RequestKey(r)), passphrase |-> Undefined, password |-> Undefined]

\* Every request is a key login, and all of them are in flight together.
InitConcurrent ==
    /\ pc = [r \in Requests |-> "json"]
    /\ body = [r \in Requests |-> Some(KeyBody(r))]
    /\ InitRequest
    /\ parseIn = Undefined
    /\ parseOut = Undefined
    /\ Mounted

\* The steps of a key login.
HandleKey(r) ==
    \/ ConnectWithKey(r)
    \/ WriteKeyFails(r)
    \/ ConnectResolves(r)
    \/ ConnectRejects(r)
    \/ ScalarResolves(r)
    \/ ScalarRejects(r)
    \/ ProcessesRejects(r)
    \/ ReturnSnapshot(r)
    \/ ScalarExitThrows(r)

\* The event loop runs one synchronous segment of one request at a time.
NextConcurrent == \E r \in Requests : HandleKey(r)

SpecConcurrent == InitConcurrent /\ [][NextConcurrent]_vars

\* ------------------------------------------------ one login, and its caller
PasswordBody ==
    [host |-> Some(SteadyHost), port |-> Undefined, username |-> Some(<<"root">>),
     privateKey |-> Undefined, passphrase |-> Undefined, password |-> Some(<<"x">>)]

LoginBodies ==
    {KeyBody(1), [KeyBody(1) EXCEPT !.passphrase = Some(<<"pp">>)], PasswordBody}

\* One request with complete credentials.
InitLogin ==
    /\ pc = [r \in Requests |-> IF r = 1 THEN "json" ELSE "idle"]
    /\ \E b \in LoginBodies : body = [r \in Requests |-> IF r = 1 THEN Some(b) ELSE Undefined]
    /\ InitLocals
    /\ tempDirExists \in BOOLEAN
    /\ parseIn = Undefined
    /\ parseOut = Undefined
    /\ Mounted

InitLive == InitLogin /\ faults = NoFaults

\* The synchronous code up to the call of ssh.connect.
Prepare(r) == ConnectWithPassword(r) \/ ConnectWithKey(r) \/ WriteKeyFails(r)

\* ssh.connect settles.
ConnectSettles(r) == ConnectResolves(r) \/ ConnectRejects(r)

\* ssh.execCommand settles and the handler runs on to its next await or to
\* its return.
CommandSettles(r) ==
    \/ ScalarResolves(r)
    \/ ScalarRejects(r)
    \/ ProcessesRejects(r)
    \/ ReturnSnapshot(r)
    \/ ScalarExitThrows(r)

NextLive == \E r \in Requests : Prepare(r) \/ ConnectSettles(r) \/ CommandSettles(r) \/ Abort(r)

\* Synchronous code runs to its await, and readyTimeout (line 46) makes
\* ssh.connect settle; ssh.execCommand is called without any timeout, so
\* nothing makes a command settle.
SpecLive ==
    /\ InitLive
    /\ [][NextLive]_vars
    /\ WF_vars(\E r \in Requests : Prepare(r))
    /\ WF_vars(\E r \in Requests : ConnectSettles(r))

\* ------------------------------------------------ cleanup calls that fail
CleanupFaults == [unlink : BOOLEAN, dispose : BOOLEAN]

\* One login; unlinkSync, ssh.dispose, both or neither fail for it.
InitFaulty ==
    /\ InitLogin
    /\ \E f \in CleanupFaults :
         faults = [r \in Requests |-> IF r = 1 THEN f ELSE NoFaults[r]]

NextFaulty ==
    \E r \in Requests :
        Prepare(r) \/ ConnectSettles(r) \/ CommandSettles(r) \/ DisposeThrows(r)

SpecFaulty == InitFaulty /\ [][NextFaulty]_vars

\* --------------------------------------------- the keys of lines 57-61
MaxKeyLen == 4

KeyAlphabet == {"\\", "n", "\r", "\n", " ", "k"}

\* The keys of at most n symbols.
RECURSIVE KeysUpTo(_)
KeysUpTo(n) ==
    IF n = 0 THEN {<<>>}
    ELSE LET shorter == KeysUpTo(n - 1)
         IN  shorter \cup {Append(t, c) : t \in shorter, c \in KeyAlphabet}

\* One request with host, username and a key of any text.
InitKeys ==
    /\ pc = [r \in Requests |-> IF r = 1 THEN "json" ELSE "idle"]
    /\ \E k \in KeysUpTo(MaxKeyLen) :
         body = [r \in Requests |->
                    IF r = 1 THEN Some([KeyBody(1) EXCEPT !.privateKey = Some(k)])
                    ELSE Undefined]
    /\ InitLocals
    /\ faults = NoFaults
    /\ tempDirExists = TRUE
    /\ parseIn = Undefined
    /\ parseOut = Undefined
    /\ Mounted

\* Lines 33-94 for such a request.
NextKeys == \E r \in Requests : MissingCredential(r) \/ ConnectWithKey(r)

SpecKeys == InitKeys /\ [][NextKeys]_vars

\* ------------------------------------------- the parsing of lines 143-230
MaxFieldLen == 2
MaxTableLen == 2
MaxLongTable == 22

FieldAlphabet == {"0", "5", ".", "-", "k", " "}

\* The texts of at most n symbols of the alphabet.
RECURSIVE TextsUpTo(_)
TextsUpTo(n) ==
    IF n = 0 THEN {<<>>}
    ELSE LET shorter == TextsUpTo(n - 1)
         IN  shorter \cup {Append(t, c) : t \in shorter, c \in FieldAlphabet}

FieldSamples ==
    { <<"0", ".", "0", "0", "5">>, <<"1", ".", "0", "0", "5">>, <<"0", ".", "1", "2", "5">>,
      <<"2", ".", "6", "7", "5">>, <<"1", "e", "2">>, <<"0", "x", "1", "f">>,
      <<"+", "5">>, <<"9", "9", ".", "9", "9", "9">>, <<"-", "0", ".", "0", "0", "1">>,
      <<"5", "e", "-", "1">>, <<"Infinity">>, <<"-", "Infinity">>,
      <<"\t", "7">>, <<"-", "-", "-">>, <<"5", "-", "-", "-", "5">> }

FieldTexts == TextsUpTo(MaxFieldLen) \cup FieldSamples

ByteCounts ==
    { <<"8", "5", "8", "9", "9", "3", "4", "5", "9", "2">>, <<"4", "2", "9", "4", "9", "6", "7", "2", "9", "6">>,
      <<"2", "1", "4", "7", "4", "8", "3", "6", "4", "8">>, <<"1", "0", "7", "3", "7", "4", "1", "8", "2", "4">>,
      <<"1">>, <<"3">>,
      <<"7">>, <<"3", "2">>,
      <<"2", "0", "0">>, <<"1", "0", "0", "0">>,
      <<"0">>, <<"4", "0", "0", "0">> }

\* Hosts that differ from the base host in one probe, or in their memory.
HostFacts ==
    {[BaseFacts EXCEPT ![c] = t] : c \in DOMAIN BaseFacts, t \in FieldTexts}
      \cup {[BaseFacts EXCEPT !.memTotal = t, !.memUsed = u] : t, u \in ByteCounts}

LineSamples ==
    { ProcessLine(Columns(<<"1">>, <<"9", ".", "5">>) \o << <<"a">> >>),
      ProcessLine(Columns(<<"2">>, <<"1", "2">>) \o <<Word("a", 50)>>),
      ProcessLine(Columns(<<"3">>, <<"0", ".", "0">>) \o <<Word("a", 51)>>),
      ProcessLine(Columns(<<"4">>, <<"9", ".", "5">>) \o <<Word("a", 30), Word("b", 19)>>),
      ProcessLine(Columns(<<"5">>, <<"1", "2">>) \o <<Word("a", 30), Word("b", 20)>>),
      ProcessLine(Columns(<<"6">>, <<"0", ".", "0">>) \o << <<"p">>, <<"-", "m">>, <<"x">> >>),
      ProcessLine(Columns(<<"7">>, <<"9", ".", "5">>)),
      ProcessLine(<< <<"r", "o", "o", "t">>, <<"1">>, <<"5", ".", "0">> >>),
      <<" ", " ">>,
      <<" ">> \o Join(Columns(<<"k">>, <<"-">>) \o << <<"a">>, <<"b">> >>, <<" ", "\t">>) }

\* The sequences of at most n lines.
RECURSIVE TablesUpTo(_)
TablesUpTo(n) ==
    IF n = 0 THEN {<<>>}
    ELSE LET shorter == TablesUpTo(n - 1)
         IN  shorter \cup {Append(t, line) : t \in shorter, line \in LineSamples}

\* The line of the process at rank j of a long table.
RankedLine(j) ==
    ProcessLine(Columns(DigitText(SmallDigits(j)), DigitText(SmallDigits(90 - j)))
                \o << <<"s", "h">> >>)

\* Tables of MaxRows - 1 to MaxLongTable processes, whole or with the line at
\* rank gap cut short.
LongTables ==
    { [j \in 1..n |-> IF j = gap THEN <<"r", " ", "1">> ELSE RankedLine(j)] :
          n \in (MaxRows - 1)..MaxLongTable, gap \in {0, 2} }

ProcessTables == TablesUpTo(MaxTableLen) \cup LongTables

BaseTable == <<RankedLine(1)>>

\* What ps prints for a table: each line and its line end.
TableText(lines) == Join([i \in 1..Len(lines) |-> lines[i] \o <<"\n">>], <<>>)

ParseHost == <<"10.0.0.5">>

\* The probe results of one poll whose scalar command exited with 0,
\* with the facts and the process lines they were printed from.
ParseInputs ==
    {[facts |-> f, lines |-> BaseTable, host |-> ParseHost,
      result |-> [code |-> Some(0), stdout |-> RunCommands(Commands, f)],
      processesResult |-> [code |-> Some(0), stdout |-> TableText(BaseTable)]]
        : f \in HostFacts}
      \cup
    {[facts |-> BaseFacts, lines |-> t, host |-> ParseHost,
      result |-> [code |-> Some(0), stdout |-> RunCommands(Commands, BaseFacts)],
      processesResult |-> [code |-> c, stdout |-> TableText(t)]]
        : c \in {Some(0), Some(1)}, t \in ProcessTables}

InitParse ==
    /\ pc = [r \in Requests |-> "idle"]
    /\ body = [r \in Requests |-> Undefined]
    /\ InitLocals
    /\ faults = NoFaults
    /\ tempDirExists = TRUE
    /\ \E in \in ParseInputs : parseIn = Some(in)
    /\ parseOut = Undefined
    /\ Mounted

\* Lines 143-230 on their own: the constants of lines 149-165 and the answer.
Parse ==
    /\ parseIn # Undefined
    /\ parseOut = Undefined
    /\ ~ProbeFailed(parseIn[1].result, parseIn[1].processesResult)
    /\ \E data \in Snapshots(parseIn[1].result, parseIn[1].processesResult, parseIn[1].host) :
         parseOut' = Some(
             [fields |-> ScalarFields(SegmentsOf(parseIn[1].result.stdout), parseIn[1].host),
              response |-> OkResponse(data)])
    /\ UNCHANGED <<dashboardVars, trace, aborted, faults, parseIn, pc, body, keyFilePath, connected, result, processesResult,
                   response, thrown, files, tempDirExists, connectArgs, execArgs,
                   written, keyRead>>

NextParse == Parse

SpecParse == InitParse /\ [][NextParse]_vars

\* ================================================================== claims
Returned(r) == pc[r] = "returned"

Parsed(r) == body[r] # Undefined

Blank(v) == v \in {Undefined, Some(<<>>)}

HostOrUsernameMissing(r) ==
    Parsed(r) /\ (Blank(body[r][1].host) \/ Blank(body[r][1].username))

HostAndUsernameGiven(r) ==
    Parsed(r) /\ ~Blank(body[r][1].host) /\ ~Blank(body[r][1].username)

NeitherCredential(r) ==
    Parsed(r) /\ Blank(body[r][1].privateKey) /\ Blank(body[r][1].password)

BothCredentials(r) ==
    Parsed(r) /\ ~Blank(body[r][1].privateKey) /\ ~Blank(body[r][1].password)

\* The private-key payload as sent holds the PuTTY marker.
PayloadHasMarker(r) ==
    /\ Parsed(r)
    /\ ~Blank(body[r][1].privateKey)
    /\ \E i \in 1..Len(body[r][1].privateKey[1]) - 1 :
         /\ body[r][1].privateKey[1][i] = "PuTTY-User-Key"
         /\ body[r][1].privateKey[1][i + 1] = "-File"

ConnectAttempted(r) == connectArgs[r] # <<>>

SessionOpened(r) == execArgs[r] # <<>>

KeyFileWritten(r) == written[r] # <<>>

IsError(r, status, text) ==
    response[r] = [status |-> status, error |-> Some(text), data |-> Undefined]

ScalarExit(r) == result[r][1].code

\* C1: when the handler has returned, every key file it wrote is gone, on
\* the success path and on every failure path.
C1_KeyFileDeletedOnReturn ==
    \A r \in Requests :
        Returned(r) =>
            \A i \in 1..Len(written[r]) : files[written[r][i].path] = Absent

\* A key file was written and the handler returned through the catch block.
C1_Witness ==
    \E r \in Requests :
        /\ Returned(r) /\ KeyFileWritten(r)
        /\ thrown[r] # Undefined /\ thrown[r][1].at = "connect"
        /\ files[written[r][1].path] = Absent

\* C2: when the handler has returned and ssh.connect had succeeded, the
\* session is closed.
C2_SessionClosedOnReturn ==
    \A r \in Requests : Returned(r) /\ SessionOpened(r) => ~connected[r]

\* The session was open when a probe command threw.
C2_Witness ==
    \E r \in Requests :
        /\ Returned(r) /\ SessionOpened(r) /\ ~connected[r]
        /\ thrown[r] # Undefined /\ thrown[r][1].at = "execScalar"

C4_MissingCredential ==
    \A r \in Requests :
        HostAndUsernameGiven(r) /\ NeitherCredential(r) =>
            /\ ~ConnectAttempted(r)
            /\ Returned(r) =>
                 IsError(r, 400, <<"Either private key or password is required">>)

\* Host and username given, the password is the empty string, no key.
C4_Witness ==
    \E r \in Requests :
        /\ Returned(r) /\ HostAndUsernameGiven(r)
        /\ body[r][1].password = Some(<<>>) /\ body[r][1].privateKey = Undefined
        /\ response[r].status = 400

\* C5 as stated: a request with both a password and a private key is
\* rejected with the missing-credential error, like one with neither (so
\* ssh.connect is not called for it).
C5_ExactlyOneCredential ==
    \A r \in Requests :
        HostAndUsernameGiven(r) /\ (NeitherCredential(r) \/ BothCredentials(r)) =>
            /\ ~ConnectAttempted(r)
            /\ Returned(r) =>
                 IsError(r, 400, <<"Either private key or password is required">>)

\* C5 amended: at least one of password and private key is required; a
\* request with neither is rejected with the missing-credential error, a
\* request with both passes the check and is handled by key, its password
\* unused.
C5_AtLeastOneCredential ==
    \A r \in Requests :
        HostAndUsernameGiven(r) =>
            /\ NeitherCredential(r) /\ Returned(r) =>
                 IsError(r, 400, <<"Either private key or password is required">>)
            /\ BothCredentials(r) =>
                 /\ response[r].error #
                        Some(<<"Either private key or password is required">>)
                 /\ \A i \in 1..Len(connectArgs[r]) :
                        /\ connectArgs[r][i].password = Undefined
                        /\ connectArgs[r][i].privateKeyPath # Undefined

\* Both credentials given and ssh.connect was called.
C5_Witness ==
    \E r \in Requests :
        /\ Returned(r) /\ HostAndUsernameGiven(r) /\ BothCredentials(r)
        /\ ConnectAttempted(r)

\* C6 as stated: whatever else the request holds, a payload with the PuTTY
\* marker is answered with the PPK conversion instructions, without a
\* connect and without a key file.
C6_PPKAlwaysUnsupportedFormat ==
    \A r \in Requests :
        PayloadHasMarker(r) =>
            /\ ~ConnectAttempted(r)
            /\ ~KeyFileWritten(r)
            /\ Returned(r) => IsError(r, 400, PPKMessage)

\* C6 amended: a payload with the PuTTY marker never leads to a connect or
\* to a key file, and when host and username are given the answer is 400
\* with the PPK conversion instructions.
C6_PPKUnsupportedFormat ==
    \A r \in Requests :
        PayloadHasMarker(r) =>
            /\ ~ConnectAttempted(r)
            /\ ~KeyFileWritten(r)
            /\ Returned(r) /\ HostAndUsernameGiven(r) => IsError(r, 400, PPKMessage)

\* The marker is not at the start of the payload and a password is given.
C6_Witness ==
    \E r \in Requests :
        /\ Returned(r) /\ HostAndUsernameGiven(r) /\ PayloadHasMarker(r)
        /\ body[r][1].privateKey[1][1] # "PuTTY-User-Key"
        /\ ~Blank(body[r][1].password)
        /\ IsError(r, 400, PPKMessage)

\* The request fails one of the input checks.
InputInvalid(r) ==
    \/ ~Parsed(r)
    \/ HostOrUsernameMissing(r)
    \/ NeitherCredential(r)
    \/ PayloadHasMarker(r)

C8_ValidationHasNoEffects ==
    \A r \in Requests :
        Returned(r) /\ response[r].status = 400 =>
            /\ ~ConnectAttempted(r)
            /\ execArgs[r] = <<>>
            /\ ~KeyFileWritten(r)
            /\ keyFilePath[r] = Undefined
            /\ \A p \in Paths : files[p] = Absent

\* A key-auth request answered 400.
C8_Witness ==
    \E r \in Requests :
        /\ Returned(r) /\ response[r].status = 400
        /\ HostAndUsernameGiven(r) /\ ~Blank(body[r][1].privateKey)
        /\ ~ConnectAttempted(r) /\ ~KeyFileWritten(r)

\* C9 as stated: after a non-zero scalar exit code the answer is always 500
\* 'Failed to execute system commands'.
C9_ScalarFailureMessage ==
    \A r \in Requests :
        Returned(r) /\ result[r] # Undefined /\ ScalarExit(r) # Some(0) =>
            IsError(r, 500, <<"Failed to execute system commands">>)

\* C9 amended: after a non-zero scalar exit code the answer is always an
\* error with status 500 and never a snapshot; it is 'Failed to execute
\* system commands' when the process command that runs next resolves (when
\* that command throws, its error is the one reported).
C9_ScalarFailureIsError ==
    \A r \in Requests :
        Returned(r) /\ result[r] # Undefined /\ ScalarExit(r) # Some(0) =>
            /\ response[r].status = 500
            /\ response[r].data = Undefined
            /\ response[r].error # Undefined
            /\ processesResult[r] # Undefined =>
                 IsError(r, 500, <<"Failed to execute system commands">>)

\* The scalar command was killed (exit code null) with a full stdout.
C9_Witness ==
    \E r \in Requests :
        /\ Returned(r) /\ result[r] # Undefined /\ processesResult[r] # Undefined
        /\ ScalarExit(r) = Undefined
        /\ Len(result[r][1].stdout) > 1
        /\ response[r].status = 500

\* The number of whitespace-separated tokens of a text.
TokenCount(s) ==
    Cardinality({i \in 1..Len(s) : ~IsSpace(s[i]) /\ (i = 1 \/ IsSpace(s[i - 1]))})

ParsedOutput == parseOut # Undefined

Facts == parseIn[1].facts

Fields == parseOut[1].fields

Snapshot == parseOut[1].response.data[1]

One == [kind |-> "fin", sign |-> 1, mag |-> <<1>>, scale |-> 0]

Zero == [kind |-> "fin", sign |-> 1, mag |-> <<>>, scale |-> 0]

IntegerFields ==
    {"cpuCores", "memTotal", "memUsed", "memFree", "diskTotal", "diskUsed",
     "diskAvailable", "processesAll", "processesRunning"}

DecimalFields == {"cpuUsage", "diskUsagePercent", "uptime"}

NumericFields == IntegerFields \cup DecimalFields

\* No probe printed the sentinel itself, so every probe has its own segment.
Regular == \A c \in DOMAIN Facts : ~Includes(Facts[c], <<"-", "-", "-">>)

Unsigned(t) == IF t # <<>> /\ t[1] \in {"+", "-"} THEN Tail(t) ELSE t

\* The text does not start with a number of the field's kind.
FailsParsing(c, text) ==
    LET u == Unsigned(TrimStart(text))
    IN  ~ \/ u # <<>> /\ u[1] \in DecimalDigits
          \/ c \in DecimalFields /\ u # <<>> /\ u[1] = "Infinity"
          \/ c \in DecimalFields /\ Len(u) >= 2 /\ u[1] = "." /\ u[2] \in DecimalDigits

\* C11 as stated: a numeric field whose segment fails numeric parsing is 0,
\* except mem-total and disk-total, the only fields that default to 1.
C11_OnlyTotalsDefaultToOne ==
    ParsedOutput /\ Regular =>
        \A c \in NumericFields :
            FailsParsing(c, Facts[c]) =>
                Fields[c] = IF c \in {"memTotal", "diskTotal"} THEN One ELSE Zero

\* C11: a numeric field whose segment fails numeric parsing is 0, except
\* cpu-cores, mem-total and disk-total, the only fields that default to 1.
C11_Defaults ==
    ParsedOutput /\ Regular =>
        \A c \in NumericFields :
            FailsParsing(c, Facts[c]) =>
                Fields[c] = IF c \in {"cpuCores", "memTotal", "diskTotal"} THEN One ELSE Zero

\* The cpu-cores segment is not a number and the field is 1.
C11_Witness ==
    /\ ParsedOutput /\ Regular
    /\ Facts.cpuCores = <<"k">>
    /\ Fields.cpuCores = One
    /\ Snapshot.cpu.cores = Some(One)

\* a * b
RECURSIVE NatMul(_, _)
NatMul(a, b) ==
    IF b = <<>> THEN <<>>
    ELSE NatAdd(NatShift(NatMul(a, Front(b)), 1), NatMulSmall(a, Last(b)))

\* |a - b|
NatDistance(a, b) == IF NatLess(a, b) THEN NatSub(b, a) ELSE NatSub(a, b)

\* A text of digits only.
PlainDigits(t) == t # <<>> /\ \A i \in 1..Len(t) : t[i] \in DecimalDigits

DigitsOf(t) == Norm([i \in 1..Len(t) |-> DigitValue(t[i])])

\* A text of digits, a point and two digits.
TwoDecimals(t) ==
    /\ Len(t) >= 4
    /\ t[Len(t) - 2] = "."
    /\ PlainDigits(SubSeq(t, 1, Len(t) - 3) \o SubSeq(t, Len(t) - 1, Len(t)))

\* The text is n / d to two decimals: no other hundredth is nearer to n / d.
IsRounded(t, n, d) ==
    /\ TwoDecimals(t)
    /\ LET h == DigitsOf(SubSeq(t, 1, Len(t) - 3) \o SubSeq(t, Len(t) - 1, Len(t)))
       IN  NatLeq(NatMulSmall(NatDistance(NatMul(h, d), NatShift(n, 2)), 2), d)

Gibi == <<1, 0, 7, 3, 7, 4, 1, 8, 2, 4>>

\* C12: for a mem-total T > 0 and a mem-used U given in digits, memory.total
\* is T/1024^3, memory.used is U/1024^3 and memory.usagePercent is (U/T)*100,
\* each to two decimals; 8589934592 and 4294967296 bytes give "8.00", "4.00"
\* and "50.00", 2147483648 and 1073741824 bytes give "50.00".
C12_MemoryInGigabytes ==
    ParsedOutput /\ Regular /\ PlainDigits(Facts.memTotal) /\ PlainDigits(Facts.memUsed)
      /\ DigitsOf(Facts.memTotal) # <<>> =>
        LET T == DigitsOf(Facts.memTotal)
            U == DigitsOf(Facts.memUsed)
        IN  /\ IsRounded(Snapshot.memory.total, T, Gibi)
            /\ IsRounded(Snapshot.memory.used, U, Gibi)
            /\ IsRounded(Snapshot.memory.usagePercent, NatShift(U, 2), T)
            /\ T = <<8, 5, 8, 9, 9, 3, 4, 5, 9, 2>> /\ U = <<4, 2, 9, 4, 9, 6, 7, 2, 9, 6>> =>
                 /\ Snapshot.memory.total = <<"8", ".", "0", "0">>
                 /\ Snapshot.memory.used = <<"4", ".", "0", "0">>
                 /\ Snapshot.memory.usagePercent = <<"5", "0", ".", "0", "0">>
            /\ T = <<2, 1, 4, 7, 4, 8, 3, 6, 4, 8>> /\ U = <<1, 0, 7, 3, 7, 4, 1, 8, 2, 4>> =>
                 Snapshot.memory.usagePercent = <<"5", "0", ".", "0", "0">>

\* 8 GiB of memory, half of it used.
C12_Witness ==
    /\ ParsedOutput
    /\ Facts.memTotal = <<"8", "5", "8", "9", "9", "3", "4", "5", "9", "2">>
    /\ Facts.memUsed = <<"4", "2", "9", "4", "9", "6", "7", "2", "9", "6">>
    /\ Snapshot.memory.total = <<"8", ".", "0", "0">>
    /\ Snapshot.memory.usagePercent = <<"5", "0", ".", "0", "0">>

\* C13 as stated: when disk-total is not a number it falls back to 1, the
\* poll is answered, and disk.usagePercent is disk-used relative to that total.
C13_PercentAgainstFallback ==
    ParsedOutput /\ Regular /\ FailsParsing("diskTotal", Facts.diskTotal)
      /\ PlainDigits(Facts.diskUsed) =>
        /\ Fields.diskTotal = One
        /\ parseOut[1].response.status = 200
        /\ IsRounded(Snapshot.disk.usagePercent, NatShift(DigitsOf(Facts.diskUsed), 2), <<1>>)

\* C13: when disk-total is not a number it falls back to 1 and the poll is
\* answered; disk.usagePercent is the use percent df printed, to two
\* decimals, whatever the total.
C13_PercentFromProbe ==
    ParsedOutput /\ Regular /\ FailsParsing("diskTotal", Facts.diskTotal)
      /\ PlainDigits(Facts.diskUsagePercent) =>
        /\ Fields.diskTotal = One
        /\ parseOut[1].response.status = 200
        /\ parseOut[1].response.error = Undefined
        /\ Snapshot.disk.total = <<"0", ".", "0", "0">>
        /\ IsRounded(Snapshot.disk.usagePercent, DigitsOf(Facts.diskUsagePercent), <<1>>)

\* df printed 37% and 400 bytes used, and a total that is not a number.
C13_Witness ==
    /\ ParsedOutput
    /\ Facts.diskTotal = <<"k">>
    /\ Facts.diskUsed = <<"4", "0", "0">>
    /\ Fields.diskTotal = One
    /\ Snapshot.disk.usagePercent = <<"3", "7", ".", "0", "0">>

\* The order of the fields as documented.
DocumentedOrder ==
    <<"cpuUsage", "cpuCores", "cpuModel", "memTotal", "memUsed", "memFree",
      "diskTotal", "diskUsed", "diskAvailable", "diskUsagePercent", "platform",
      "distro", "arch", "hostname", "uptime", "processesAll", "processesRunning">>

\* The pieces of a text between the sentinels, left to right.
RECURSIVE Cuts(_, _)
Cuts(s, from) ==
    LET hits == {k \in from..(Len(s) - 2) : s[k] = "-" /\ s[k + 1] = "-" /\ s[k + 2] = "-"}
    IN  IF hits = {} THEN <<SubSeq(s, from, Len(s))>>
        ELSE LET first == CHOOSE k \in hits : \A j \in hits : k <= j
             IN  <<SubSeq(s, from, first - 1)>> \o Cuts(s, first + 3)

\* Digits, or digits, a point and digits.
PlainDecimal(t) ==
    \/ PlainDigits(t)
    \/ \E i \in 2..(Len(t) - 1) :
         t[i] = "." /\ PlainDigits(SubSeq(t, 1, i - 1)) /\ PlainDigits(SubSeq(t, i + 1, Len(t)))

DecimalValue(t) ==
    IF PlainDigits(t) THEN Finite(1, DigitsOf(t), 0)
    ELSE LET i == CHOOSE i \in 1..Len(t) : t[i] = "."
         IN  Finite(1, DigitsOf(SubSeq(t, 1, i - 1) \o SubSeq(t, i + 1, Len(t))), Len(t) - i)

\* A probe output that reads as a value of its field without a fallback.
PlainFact(c, text) ==
    IF c \in IntegerFields THEN PlainDigits(text) /\ DigitsOf(text) # <<>>
    ELSE IF c \in DecimalFields THEN PlainDecimal(text) /\ DecimalValue(text) # Zero
    ELSE Trim(text) # <<>>

\* The value of a plain fact.
Expected(c, text) == IF c \in NumericFields THEN DecimalValue(text) ELSE text

\* The fields of the snapshot that hold a constant as it is.
Reported(c) ==
    CASE c = "cpuCores" -> Snapshot.cpu.cores
      [] c = "cpuModel" -> Some(Snapshot.cpu.model)
      [] c = "platform" -> Some(Snapshot.system.platform)
      [] c = "distro" -> Some(Snapshot.system.distro)
      [] c = "arch" -> Some(Snapshot.system.arch)
      [] c = "hostname" -> Some(Snapshot.system.hostname)
      [] c = "processesAll" -> Snapshot.processes.all
      [] c = "processesRunning" -> Snapshot.processes.running
      [] OTHER -> Some(Fields[c])

\* C14: when the scalar output has exactly 17 segments, segment i is what
\* the probe documented for position i printed, and it is the segment the
\* field documented for position i is read from.
C14_PositionalFields ==
    ParsedOutput /\ (\A c \in DOMAIN Facts : PlainFact(c, Facts[c])) =>
        LET segments == Cuts(parseIn[1].result.stdout, 1)
        IN  Len(segments) = 17 =>
              \A i \in 1..17 :
                  LET c == DocumentedOrder[i]
                      segment == Trim(segments[i])
                  IN  /\ segment = Trim(Facts[c])
                      /\ Fields[c] = Expected(c, segment)
                      /\ Reported(c) = Some(Expected(c, segment))

\* The base host: every field holds what its own probe printed.
C14_Witness ==
    /\ ParsedOutput
    /\ Facts = BaseFacts
    /\ Len(Cuts(parseIn[1].result.stdout, 1)) = 17
    /\ Fields.cpuCores = [kind |-> "fin", sign |-> 1, mag |-> <<4>>, scale |-> 0]
    /\ Fields.cpuModel = <<"Intel">>
    /\ Fields.processesRunning = [kind |-> "fin", sign |-> 1, mag |-> <<1, 1, 8>>, scale |-> 0]
    /\ Snapshot.system.hostname = <<"vm1">>

Lines == parseIn[1].lines

List == Snapshot.processes.list

\* Where the tokens of a line start.
TokenStarts(s) == {i \in 1..Len(s) : ~IsSpace(s[i]) /\ (i = 1 \/ IsSpace(s[i - 1]))}

\* The n-th whitespace-separated token of a line.
TokenAt(s, n) ==
    LET starts == TokenStarts(s)
        p == CHOOSE i \in starts : Cardinality({j \in starts : j <= i}) = n
        e == CHOOSE k \in p..Len(s) :
                 /\ \A j \in p..k : ~IsSpace(s[j])
                 /\ k = Len(s) \/ IsSpace(s[k + 1])
    IN  SubSeq(s, p, e)

\* The lines that have at least 11 tokens.
ValidLines == SelectSeq(Lines, LAMBDA l : TokenCount(l) >= 11)

Least(a, b) == IF a < b THEN a ELSE b

\* C15 as stated: a line with fewer than 11 tokens gives no row, and a line
\* with exactly 11 tokens gives a row whose command is the 11th token.
C15_CommandIsEleventhToken ==
    ParsedOutput =>
        /\ parseOut[1].response.status = 200
        /\ Len(List) = Least(Len(ValidLines), 20)
        /\ \A j \in 1..Len(List) :
               TokenCount(ValidLines[j]) = 11 => List[j].command = TokenAt(ValidLines[j], 11)

\* C15: a line with fewer than 11 tokens gives no row and no error, and a
\* line with exactly 11 tokens gives a row whose command is the first 50
\* characters of the 11th token.
C15_ShortLinesDropped ==
    ParsedOutput =>
        /\ parseOut[1].response.status = 200
        /\ Len(List) = Least(Len(ValidLines), 20)
        /\ \A j \in 1..Len(List) :
               TokenCount(ValidLines[j]) = 11 =>
                   LET token == TokenAt(ValidLines[j], 11)
                   IN  List[j].command = SubSeq(token, 1, Least(Len(token), 50))

\* A line of three tokens, then a line of 11 tokens whose last has 51 characters.
C15_Witness ==
    /\ ParsedOutput
    /\ Len(Lines) = 2
    /\ TokenCount(Lines[1]) = 3
    /\ TokenCount(Lines[2]) = 11
    /\ Len(TokenAt(Lines[2], 11)) = 51
    /\ Len(List) = 1
    /\ Len(List[1].command) = 50

\* The 11th and later tokens of a line, a space between each two.
JoinedCommand(line) ==
    Join([k \in 1..(TokenCount(line) - 10) |-> TokenAt(line, k + 10)], <<" ">>)

\* C16: the command of a row is the 11th and later tokens of its line joined
\* with single spaces, cut to its first 50 characters; it has exactly 50
\* when the joined command is longer, and never more than 50.
C16_CommandCut ==
    ParsedOutput =>
        \A j \in 1..Len(List) :
            /\ Len(List[j].command) <= 50
            /\ j <= Len(ValidLines) =>
                 LET joined == JoinedCommand(ValidLines[j])
                 IN  /\ List[j].command = SubSeq(joined, 1, Least(Len(joined), 50))
                     /\ Len(joined) > 50 => Len(List[j].command) = 50

\* A command of two words, 51 characters once joined.
C16_Witness ==
    /\ ParsedOutput
    /\ Len(Lines) = 1
    /\ TokenCount(Lines[1]) = 12
    /\ Len(JoinedCommand(Lines[1])) = 51
    /\ Len(List) = 1
    /\ Len(List[1].command) = 50

\* C17: the process list has at most 20 rows, whatever the probe printed.
C17_AtMostTwentyRows ==
    ParsedOutput => Len(List) <= 20 /\ Len(List) = Least(Len(ValidLines), 20)

\* More than 20 lines of at least 11 tokens.
C17_Witness ==
    /\ ParsedOutput
    /\ Len(ValidLines) > 20
    /\ Len(List) = 20

\* x <= y for finite numbers.
NumberLeq(x, y) ==
    LET a == NatShift(x.mag, y.scale)
        b == NatShift(y.mag, x.scale)
    IN  IF x.sign < 0 /\ y.sign > 0 THEN TRUE
        ELSE IF x.sign > 0 /\ y.sign < 0 THEN a = <<>> /\ b = <<>>
        ELSE IF x.sign > 0 THEN NatLeq(a, b)
        ELSE NatLeq(b, a)

\* The cpu of each row is a number, and no smaller than the next row's.
Descending(cpus) ==
    \A j \in 1..(Len(cpus) - 1) :
        /\ cpus[j] # Undefined
        /\ cpus[j + 1] # Undefined
        /\ NumberLeq(cpus[j + 1][1], cpus[j][1])

ListCpus == [j \in 1..Len(List) |-> List[j].cpu]

\* The %CPU column of a line.
CpuColumn(line) == TokenAt(line, 3)

\* C18 as stated: whatever the probe printed, each row's cpu is greater
\* than or equal to the cpu of the row after it.
C18_AlwaysDescending == ParsedOutput => Descending(ListCpus)

\* C18: the rows keep the order of the lines: row j holds the %CPU of the
\* j-th line of at least 11 tokens, so the list is descending by cpu
\* whenever the lines the probe printed are.
C18_OrderOfOutput ==
    ParsedOutput /\ (\A j \in 1..Len(ValidLines) : PlainDecimal(CpuColumn(ValidLines[j]))) =>
        LET shown == [j \in 1..Len(ValidLines) |-> Some(DecimalValue(CpuColumn(ValidLines[j])))]
        IN  /\ \A j \in 1..Len(List) : List[j].cpu = shown[j]
            /\ Descending(shown) => Descending(ListCpus)

\* Two rows, printed and listed with the busier process first.
C18_Witness ==
    /\ ParsedOutput
    /\ Len(Lines) = 2
    /\ Len(List) = 2
    /\ CpuColumn(Lines[1]) = <<"1", "2">>
    /\ CpuColumn(Lines[2]) = <<"9", ".", "5">>
    /\ Descending(ListCpus)
    /\ List[1].cpu # List[2].cpu

\* C19: every snapshot reports a download and an upload rate of "0.00",
\* whatever the probes printed.
C19_NetworkAlwaysZero ==
    \A r \in Requests :
        Returned(r) /\ response[r].data # Undefined =>
            /\ response[r].data[1].network.download = <<"0", ".", "0", "0">>
            /\ response[r].data[1].network.upload = <<"0", ".", "0", "0">>

\* A snapshot built from probes that printed memory and disk sizes.
C19_Witness ==
    \E r \in Requests :
        /\ Returned(r) /\ response[r].data # Undefined
        /\ response[r].data[1].memory.free = <<"2", ".", "0", "0">>
        /\ response[r].data[1].network.download = <<"0", ".", "0", "0">>

\* The commands a request has run are the scalar command, then the process
\* command, each once.
RanInOrder(r) ==
    execArgs[r] \in {<<>>, <<"fullCommand">>, <<"fullCommand", "topProcessesCmd">>}

\* C20: a request calls ssh.connect at most once and runs each of the two
\* commands at most once; once a step has failed the request has returned
\* an error response, having called nothing again.
C20_NoRetry ==
    \A r \in Requests :
        /\ Len(connectArgs[r]) <= 1
        /\ RanInOrder(r)
        /\ thrown[r] # Undefined =>
             /\ Returned(r)
             /\ response[r].status = 500
             /\ response[r].error # Undefined
             /\ response[r].data = Undefined
             /\ thrown[r][1].at = "connect" => Len(connectArgs[r]) = 1 /\ execArgs[r] = <<>>
             /\ thrown[r][1].at = "execScalar" => execArgs[r] = <<"fullCommand">>

\* The connect failed and the request returned the error, with one connect
\* and no command behind it.
C20_Witness ==
    \E r \in Requests :
        /\ Returned(r)
        /\ thrown[r] # Undefined
        /\ thrown[r][1].at = "connect"
        /\ Len(connectArgs[r]) = 1
        /\ execArgs[r] = <<>>
        /\ response[r].status = 500

\* ------------------------------------------------ claims about the handler
\* The step a caught error arose at, and the message it carried.
ThrownAt(r) == thrown[r][1].at

RawMessage(r) == thrown[r][1].message

Mentions(r, words) ==
    /\ RawMessage(r) # Undefined
    /\ \E i \in 1..Len(RawMessage(r)[1]) : RawMessage(r)[1][i] = words

\* The transport's errors, by cause.
AuthRejected(r) == Mentions(r, "All configured authentication methods failed")

ConnectTimedOut(r) == ~AuthRejected(r) /\ Mentions(r, "Timed out")

ConnectRefused(r) == ~AuthRejected(r) /\ ~ConnectTimedOut(r) /\ Mentions(r, "ECONNREFUSED")

KeyUnparsable(r) ==
    /\ ~AuthRejected(r) /\ ~ConnectTimedOut(r) /\ ~ConnectRefused(r)
    /\ Mentions(r, "Unsupported key format") \/ Mentions(r, "Cannot parse privateKey")

OtherFailure(r) ==
    ~AuthRejected(r) /\ ~ConnectTimedOut(r) /\ ~ConnectRefused(r) /\ ~KeyUnparsable(r)

\* C21: a caught error is answered by its cause: authentication rejected,
\* connect timeout, connection refused and unparsable key each with their
\* own message, any other failure with its raw message, or with the default
\* message when it has none; failures that arise after the connect are of
\* the last kind; no error response carries an empty text.
C21_ErrorTaxonomy ==
    \A r \in Requests :
        /\ Returned(r) /\ response[r].status # 200 =>
             response[r].error # Undefined /\ response[r].error[1] # <<>>
        /\ Returned(r) /\ thrown[r] # Undefined =>
             /\ AuthRejected(r) => IsError(r, 500,
                  <<"Authentication failed. Please check your username and private key.">>)
             /\ ConnectTimedOut(r) => IsError(r, 500,
                  <<"Connection timeout. Please check the host and port.">>)
             /\ ConnectRefused(r) => IsError(r, 500,
                  <<"Connection refused. Please check if SSH is running on the remote host.">>)
             /\ KeyUnparsable(r) =>
                  /\ response[r].status = 500
                  /\ response[r].error # Undefined
                  /\ response[r].error[1][Len(response[r].error[1])] =
                       "Or use command line: puttygen yourkey.ppk -O private-openssh -o yourkey.pem"
             /\ OtherFailure(r) =>
                  IF Blank(RawMessage(r))
                  THEN IsError(r, 500, <<"Failed to fetch remote system info">>)
                  ELSE IsError(r, 500, RawMessage(r)[1])
             /\ ThrownAt(r) # "connect" => OtherFailure(r) /\ ~Blank(RawMessage(r))

\* The connect was refused and the answer says to check the SSH daemon.
C21_Witness ==
    \E r \in Requests :
        /\ Returned(r) /\ thrown[r] # Undefined
        /\ ThrownAt(r) = "connect"
        /\ ConnectRefused(r)
        /\ IsError(r, 500,
             <<"Connection refused. Please check if SSH is running on the remote host.">>)

\* A request between its writeFileSync and its return.
InFlight(r) == pc[r] \in {"connect", "execScalar", "execProcesses"}

HoldsKeyFile(r) == InFlight(r) /\ KeyFileWritten(r)

\* C22: requests handled side by side do not meet in the key directory: two
\* requests in flight never hold the same key file path, the transport of a
\* request reads the key that request wrote, and while a request is in
\* flight its key file is in place with the content it wrote.
C22_NoInterference ==
    \A r \in Requests :
        /\ \A o \in Requests \ {r} :
             HoldsKeyFile(r) /\ HoldsKeyFile(o) => written[r][1].path # written[o][1].path
        /\ keyRead[r] # Undefined => keyRead[r][1] = NormalizeKey(body[r][1].privateKey[1])
        /\ HoldsKeyFile(r) => files[written[r][1].path] = Some(written[r][1].data)

KeyFileGone(r) == KeyFileWritten(r) /\ files[written[r][1].path] = Absent

\* C23: every key file that is written is deleted in the end and every
\* session that is opened is closed in the end, whether or not the caller
\* aborts while the connect or a command is under way.
C23_CleanupEventually ==
    \A r \in Requests :
        /\ KeyFileWritten(r) ~> KeyFileGone(r)
        /\ connected[r] ~> ~connected[r]

\* Both commands resolved: the primary outcome is the snapshot when the
\* scalar exit code is 0 and 'Failed to execute system commands' otherwise.
BothResolved(r) == result[r] # Undefined /\ processesResult[r] # Undefined

\* C24: a cleanup step that fails never changes the outcome: the handler
\* always returns a response, and it is the one of the primary outcome,
\* whether or not unlinkSync or ssh.dispose failed on the way.
C24_CleanupNeverChangesOutcome ==
    \A r \in Requests :
        /\ pc[r] # "threw"
        /\ Returned(r) /\ BothResolved(r) =>
             IF ScalarExit(r) = Some(0)
             THEN response[r].status = 200 /\ response[r].data # Undefined
             ELSE IsError(r, 500, <<"Failed to execute system commands">>)
        /\ Returned(r) /\ thrown[r] # Undefined /\ ~BothResolved(r) =>
             response[r].status = 500 /\ response[r].error # Undefined

\* The configurations ssh.connect was called with.
Configs(r) == {connectArgs[r][i] : i \in 1..Len(connectArgs[r])}

\* C25: only a request with a private key writes a file; a request with a
\* password and no key writes none and connects with the password; a
\* request with a key connects with the path of the file it wrote, with the
\* passphrase exactly when one was given, and with neither the key bytes
\* nor a password.
C25_KeyFileOnlyForKeyAuth ==
    \A r \in Requests :
        /\ KeyFileWritten(r) \/ keyFilePath[r] # Undefined =>
             Parsed(r) /\ ~Blank(body[r][1].privateKey)
        /\ Parsed(r) /\ Blank(body[r][1].privateKey) =>
             /\ \A p \in Paths : files[p] = Absent
             /\ \A c \in Configs(r) :
                  /\ c.privateKeyPath = Undefined
                  /\ c.passphrase = Undefined
                  /\ c.password = body[r][1].password
        /\ Parsed(r) /\ ~Blank(body[r][1].privateKey) =>
             \A c \in Configs(r) :
                  /\ Len(written[r]) = 1
                  /\ c.privateKeyPath = Some(written[r][1].path)
                  /\ c.passphrase = IF Blank(body[r][1].passphrase) THEN Undefined
                                    ELSE body[r][1].passphrase
                  /\ c.password = Undefined
                  /\ "privateKey" \notin DOMAIN c
                  /\ c.privateKeyPath[1] \in Paths

\* A request with key, passphrase and password connected with the key file.
C25_Witness ==
    \E r \in Requests :
        /\ Parsed(r) /\ BothCredentials(r) /\ ~Blank(body[r][1].passphrase)
        /\ Len(connectArgs[r]) = 1 /\ Len(written[r]) = 1
        /\ connectArgs[r][1].privateKeyPath = Some(written[r][1].path)
        /\ connectArgs[r][1].passphrase = body[r][1].passphrase
        /\ connectArgs[r][1].password = Undefined

\* The key a request sent and the key its handler wrote to the key file.
SentKey(r) == body[r][1].privateKey[1]

WrittenKey(r) == written[r][1].data

HasEscapedNewline(t) == \E i \in 1..Len(t) - 1 : t[i] = "\\" /\ t[i + 1] = "n"

Untrimmed(t) == t # <<>> /\ (t[1] \in {" ", "\n", "\r"} \/ t[Len(t)] \in {" ", "\n", "\r"})

\* C26: the key written holds no CR and no backslash-n pair, has no white
\* space at either end, and normalising it again returns it unchanged.
C26_KeyNormalized ==
    \A r \in Requests :
        KeyFileWritten(r) =>
            /\ \A i \in 1..Len(WrittenKey(r)) : WrittenKey(r)[i] # "\r"
            /\ ~HasEscapedNewline(WrittenKey(r))
            /\ ~Untrimmed(WrittenKey(r))
            /\ NormalizeKey(WrittenKey(r)) = WrittenKey(r)
            /\ Len(WrittenKey(r)) <= Len(SentKey(r))

\* A key with a lone CR inside and a space at its end.
C26_Witness ==
    \E r \in Requests :
        /\ KeyFileWritten(r)
        /\ SentKey(r) = <<"k", "\r", "k", " ">>
        /\ WrittenKey(r) = <<"k", "\n", "k">>

\* Both commands resolved and the scalar exit code is 0.
ProbesDone(r) ==
    Returned(r) /\ result[r] # Undefined /\ processesResult[r] # Undefined
      /\ ScalarExit(r) = Some(0)

ScalarOut(r) == result[r][1].stdout

Data(r) == response[r].data[1]

\* An output without a sentinel that does not start like a number.
OneSegment(t) ==
    /\ \A i \in 1..Len(t) - 2 : ~(t[i] = "-" /\ t[i + 1] = "-" /\ t[i + 2] = "-")
    /\ t = <<>> \/ t[1] \notin DecimalDigits \cup {"+", "-", ".", " ", "\n", "\t", "I"}

ZeroText == <<"0", ".", "0", "0">>

\* The snapshot made of fallback values only.
FallbackSnapshot(host, list) ==
    [cpu |-> [usage |-> ZeroText, cores |-> Some(One), model |-> <<"Unknown">>, speed |-> 0],
     memory |-> [total |-> ZeroText, used |-> ZeroText, free |-> ZeroText,
                 usagePercent |-> ZeroText],
     disk |-> [total |-> ZeroText, used |-> ZeroText, available |-> ZeroText,
               usagePercent |-> ZeroText],
     network |-> [download |-> ZeroText, upload |-> ZeroText],
     system |-> [platform |-> <<"Linux">>, distro |-> <<"Unknown">>, arch |-> <<"Unknown">>,
                 hostname |-> host, uptime |-> Some(Zero)],
     processes |-> [all |-> Some(Zero), running |-> Some(Zero), blocked |-> 0, list |-> list]]

\* C27: once both commands have resolved with a scalar exit code of 0, the
\* answer is a snapshot with all its parts, whatever the scalar command
\* printed; an output that is empty or holds one segment that is no number
\* gives the fallback value of every field.
C27_ParsingNeverFails ==
    \A r \in Requests :
        ProbesDone(r) =>
            /\ thrown[r] = Undefined
            /\ response[r].status = 200
            /\ response[r].error = Undefined
            /\ response[r].data # Undefined
            /\ DOMAIN Data(r) = {"cpu", "memory", "disk", "network", "system", "processes"}
            /\ OneSegment(ScalarOut(r)) =>
                 Data(r) = FallbackSnapshot(body[r][1].host[1], Data(r).processes.list)

\* The scalar command printed an error text only, and the snapshot came.
C27_Witness ==
    \E r \in Requests :
        /\ ProbesDone(r)
        /\ ScalarOut(r) = <<"bash: free: command not found">>
        /\ response[r].status = 200
        /\ Data(r).cpu.model = <<"Unknown">>
        /\ Data(r).memory.usagePercent = ZeroText

\* A text such as 12.50 or -0.25: a finite number to two decimals.
FiniteText(t) == TwoDecimals(Unsigned(t))

LocalData ==
    [system |-> [hostname |-> <<"workstation">>],
     cpu |-> [usage |-> Some(<<"1", "2", ".", "5", "0">>)],
     memory |-> [usagePercent |-> Some(<<"4", "0", ".", "0", "0">>)]]

\* What '/api/remote-system' answers with status 200.
RemoteData ==
    [system |-> [hostname |-> <<"vm">>],
     cpu |-> [usage |-> Some(<<"7", ".", "2", "5">>)],
     memory |-> [usagePercent |-> Some(<<"6", "3", ".", "1", "0">>)]]

\* The answers a fetch may get.
Answers(remote) == IF remote THEN {RemoteData} ELSE {LocalData}

\* The messages a fetch may fail with: the error of the answer, or the
\* message of lines 82 and 113.
FetchErrors(remote) ==
    IF remote THEN {RefusedMessage, <<"Failed to fetch remote system data">>}
    ELSE {<<"Failed to fetch system data">>}

\* How many earlier values a history keeps.
HistoryKeep == 29

\* slice(-n) of an array
SliceLast(a, n) == IF Len(a) <= n THEN a ELSE SubSeq(a, Len(a) - n + 1, Len(a))

\* prev => [...prev.slice(-29), value]
Pushed(prev, value) == Append(SliceLast(prev, HistoryKeep), value)

\* fetchSystemData() is called: one more fetch is under way.
Started(remote) ==
    /\ polls' = polls + 1
    /\ inFlight' = inFlight \cup {Fetch(polls + 1, remote)}

\* What the component renders, lines 221-338.
View ==
    IF showConnectionForm THEN "form"
    ELSE IF loading THEN "loading"
    ELSE IF error # Undefined THEN "error"
    ELSE IF systemData = Undefined THEN "nothing"
    ELSE "dashboard"

\* The interval of line 131 fires: fetchSystemData() of the effect that set
\* it, which runs again whenever isRemote changes.
Tick ==
    /\ interval
    /\ polls < MaxPolls
    /\ Started(isRemote)
    /\ UNCHANGED <<systemData, loading, error, cpuHistory, memoryHistory, isRemote,
                   showConnectionForm, interval, handlerVars>>

\* 'Change Connection' / 'Connect to Remote VM', lines 355-361; the cleanup
\* of the effect clears the interval and the effect starts nothing.
OpenForm ==
    /\ View = "dashboard"
    /\ showConnectionForm' = TRUE
    /\ systemData' = Undefined
    /\ cpuHistory' = <<>>
    /\ memoryHistory' = <<>>
    /\ interval' = FALSE
    /\ UNCHANGED <<loading, error, isRemote, inFlight, polls, handlerVars>>

\* 'Connect': handleConnect, then the effect fetches and sets its interval.
HandleConnect ==
    /\ View = "form"
    /\ polls < MaxPolls
    /\ isRemote' = TRUE
    /\ showConnectionForm' = FALSE
    /\ loading' = TRUE
    /\ error' = Undefined
    /\ interval' = TRUE
    /\ Started(TRUE)
    /\ UNCHANGED <<systemData, cpuHistory, memoryHistory, handlerVars>>

\* 'Local System', lines 299-302, then the effect fetches and sets its
\* interval.
LocalSystem ==
    /\ View = "form"
    /\ polls < MaxPolls
    /\ showConnectionForm' = FALSE
    /\ isRemote' = FALSE
    /\ interval' = TRUE
    /\ Started(FALSE)
    /\ UNCHANGED <<systemData, loading, error, cpuHistory, memoryHistory, handlerVars>>

\* A fetch is answered with status 200: the setters of lines 86-92 and
\* 115-121 run, whatever the component shows by then.
FetchResolves ==
    \E f \in inFlight : \E data \in Answers(f.remote) :
        /\ inFlight' = inFlight \ {f}
        /\ systemData' = Some(data)
        /\ loading' = FALSE
        /\ error' = Undefined
        /\ cpuHistory' = Pushed(cpuHistory, ParseFloat(data.cpu.usage))
        /\ memoryHistory' = Pushed(memoryHistory, ParseFloat(data.memory.usagePercent))
        /\ UNCHANGED <<isRemote, showConnectionForm, interval, polls, handlerVars>>

\* A fetch fails or is answered with another status: the catch of lines
\* 93-96 and 124-127.
FetchFails ==
    \E f \in inFlight : \E message \in FetchErrors(f.remote) :
        /\ inFlight' = inFlight \ {f}
        /\ error' = Some(message)
        /\ loading' = FALSE
        /\ UNCHANGED <<systemData, cpuHistory, memoryHistory, isRemote,
                       showConnectionForm, interval, polls, handlerVars>>

\* The dashboard on its own: no request is being handled.
InitDashboard ==
    /\ pc = [r \in Requests |-> "idle"]
    /\ body = [r \in Requests |-> Undefined]
    /\ InitRequest
    /\ parseIn = Undefined
    /\ parseOut = Undefined
    /\ Mounted

NextDashboard ==
    \/ Tick
    \/ OpenForm
    \/ HandleConnect
    \/ LocalSystem
    \/ FetchResolves
    \/ FetchFails

SpecDashboard == InitDashboard /\ [][NextDashboard]_vars

\* ------------------------------------------------- claims about the order
\* Where the handler of request r first made the call step; 0 when it never
\* did.
Pos(r, step) ==
    IF \E i \in 1..Len(trace[r]) : trace[r][i] = step
    THEN CHOOSE i \in 1..Len(trace[r]) :
             /\ trace[r][i] = step
             /\ \A j \in 1..(i - 1) : trace[r][j] # step
    ELSE 0

Did(r, step) == Pos(r, step) > 0

\* The call first comes before the call second whenever both were made.
Before(r, first, second) ==
    (Did(r, first) /\ Did(r, second)) => Pos(r, first) < Pos(r, second)

Answered(r) == pc[r] = "returned"

\* The session is opened before any command, the scalar probe before the
\* process probe, and the response is the last step.
ProbesInOrder(r) ==
    /\ Did(r, "execScalar") => Did(r, "connected")
    /\ Did(r, "execProcesses") => Did(r, "execScalar")
    /\ Before(r, "connect", "connected")
    /\ Before(r, "connected", "execScalar")
    /\ Before(r, "execScalar", "execProcesses")
    /\ Answered(r) =>
         /\ Len(trace[r]) > 0
         /\ trace[r][Len(trace[r])] = "return"
         /\ Pos(r, "return") = Len(trace[r])

\* C29 as stated: session, scalar probe, process probe, parsing, teardown
\* (session close and key-file deletion), response, in that order, and no
\* command before the session is open.
C29_ParseThenTeardown ==
    \A r \in Requests :
        /\ ProbesInOrder(r)
        /\ Before(r, "execProcesses", "parse")
        /\ Before(r, "parse", "dispose")
        /\ Before(r, "parse", "unlink")

\* C29: in every request the session is opened, then the scalar probe runs,
\* then the process probe, then the teardown (session close and key-file
\* deletion), and only then are the outputs parsed into the snapshot and the
\* response returned; no command runs before connect has succeeded.
C29_TeardownThenParse ==
    \A r \in Requests :
        /\ ProbesInOrder(r)
        /\ Before(r, "execProcesses", "dispose")
        /\ Before(r, "dispose", "parse")
        /\ Before(r, "unlink", "parse")
        /\ Did(r, "parse") =>
             /\ Did(r, "dispose")
             /\ UsesKeyFile(r) => Did(r, "unlink")
             /\ Pos(r, "return") = Pos(r, "parse") + 1

C29_Witness ==
    /\ Answered(1)
    /\ response[1].status = 200
    /\ trace[1] = <<"write", "connect", "connected", "execScalar", "execProcesses",
                    "dispose", "unlink", "parse", "return">>

\* --------------------------------------------- claims about the dashboard
\* The snapshot came from the source now selected.
FromSelectedSource(data) ==
    data.system.hostname = (IF isRemote THEN <<"vm">> ELSE <<"workstation">>)

\* C30: while the connection form is open the snapshot stays null and both
\* histories stay empty, and a snapshot the dashboard holds came from the
\* source now selected: the answer to a fetch that was under way when the
\* form was opened or the source changed is never applied.
C30_StaleAnswerNeverApplied ==
    /\ showConnectionForm =>
         /\ systemData = <<>>
         /\ cpuHistory = <<>>
         /\ memoryHistory = <<>>
    /\ systemData # <<>> => FromSelectedSource(systemData[1])
====
